---- MODULE Spec2Model ----
(***************************************************************************)
(* Model of the yoga-wellness RAG query pipeline:                          *)
(*   - the rule-based safety filter (backend/services/safety/filter.py),   *)
(*   - the /ask request handler (backend/api/routes.py) with the retrieval *)
(*     engine, the response generator and the Mongo log sink it drives,    *)
(*   - the fixed-window rate limiter (backend/core/rate_limiter.py).       *)
(*                                                                         *)
(* Severities, similarity scores and thresholds are kept in tenths         *)
(* (0.7 is 7, 1.0 is 10) so that the comparisons of the code are integer   *)
(* comparisons.  A query is a sequence of tokens; its text is the tokens   *)
(* joined, and a term occurs in it when the term's tokens occur            *)
(* contiguously.                                                           *)
(***************************************************************************)
EXTENDS Integers, Sequences, FiniteSets, TLC

(***************************************************************************)
(* Bounds of the model.                                                    *)
(***************************************************************************)
MaxQueryLen == 3

(***************************************************************************)
(* Generic helpers.                                                        *)
(***************************************************************************)
Range(s) == {s[i] : i \in 1..Len(s)}

SetMax(S) == CHOOSE m \in S : \A x \in S : x <= m

SeqsUpTo(S, n) == UNION {[1..k -> S] : k \in 0..n}

(***************************************************************************)
(* Safety filter: SafetyFilter.__init__ and evaluate_query.                *)
(***************************************************************************)

\* The tokens queries are made of: configured terms in several casings and
\* one neutral word.
Vocabulary ==
    {"stroke", "STROKE", "heart", "attack", "Pregnant", "trimester",
     "hernia", "Surgery", "yoga"}

\* str.lower() on one token.
LowerToken(w) ==
    CASE w = "STROKE"   -> "stroke"
      [] w = "Pregnant" -> "pregnant"
      [] w = "Surgery"  -> "surgery"
      [] OTHER          -> w

\* query.lower()
Lower(q) == [i \in 1..Len(q) |-> LowerToken(q[i])]

\* Python's `term in text` on token sequences: a contiguous occurrence.
Contains(term, text) ==
    \E i \in 0..(Len(text) - Len(term)) :
        \A j \in 1..Len(term) : text[i + j] = term[j]

\* Members of the three keyword sets of SafetyFilter.__init__.
pregnancy_keywords == {<<"pregnant">>, <<"trimester">>}

medical_conditions == {<<"hernia">>, <<"surgery">>}

emergency_keywords == {<<"stroke">>, <<"heart", "attack">>}

\* The iteration orders a Python set of the conditions can have.
ConditionOrders ==
    {o \in [1..Cardinality(medical_conditions) -> medical_conditions] :
        Range(o) = medical_conditions}

\* The order in which __init__ writes the conditions.
SourceOrder == <<<<"hernia">>, <<"surgery">>>>

\* Severities of the flags, in tenths.
EmergencySeverity == 10

PregnancySeverity == 8

MedicalSeverity == 7

\* Thresholds of the aggregation, in tenths.
CriticalThreshold == 9

HighThreshold == 7

MediumThreshold == 4

EmergencyFlag ==
    [type |-> "EMERGENCY", severity |-> EmergencySeverity,
     description |-> "Emergency keywords detected", detail |-> <<>>]

PregnancyFlag ==
    [type |-> "MEDICAL_ADVICE", severity |-> PregnancySeverity,
     description |-> "Pregnancy-related terms detected", detail |-> <<>>]

MedicalFlag(condition) ==
    [type |-> "MEDICAL_ADVICE", severity |-> MedicalSeverity,
     description |-> "Medical condition detected", detail |-> condition]

EmergencyDisclaimer ==
    "Please call emergency services immediately if this is a medical emergency."

ConsultDisclaimer ==
    "Please consult a doctor or certified yoga therapist before attempting these practices."

CautionDisclaimer == "Practice with caution and listen to your body."

PrenatalDisclaimer == "Prenatal yoga should be practiced under expert guidance."

\* f.description.startswith("Pregnancy")
StartsWithPregnancy(description) ==
    description = "Pregnancy-related terms detected"

\* Step 2 of evaluate_query: the pregnancy check.
PregnancyFlags(query_lower) ==
    IF \E term \in pregnancy_keywords : Contains(term, query_lower)
    THEN <<PregnancyFlag>>
    ELSE <<>>

\* Mutant of MedicalFlags: the loop leaves after the first condition of the
\* iteration order, found or not.
MedicalFlagsFirstOnly(query_lower, order) ==
    IF Contains(order[1], query_lower) THEN <<MedicalFlag(order[1])>> ELSE <<>>

\* Step 3 of evaluate_query: the loop over the conditions in iteration
\* order, which stops at the first condition found.
MedicalFlags(query_lower, order) ==
    LET hits == {i \in 1..Len(order) : Contains(order[i], query_lower)}
    IN  IF hits = {}
        THEN <<>>
        ELSE <<MedicalFlag(order[CHOOSE i \in hits : \A j \in hits : i <= j])>>

\* Mutant of Aggregate: the HIGH threshold compared with > instead of >=.
AggregateStrictHigh(flags) ==
    IF flags = <<>>
    THEN [flags |-> flags, risk_level |-> "LOW", allow_response |-> TRUE,
          required_disclaimers |-> <<>>]
    ELSE
        LET max_severity == SetMax({flags[i].severity : i \in 1..Len(flags)})
        IN  [flags |-> flags,
             risk_level |->
                IF max_severity >= CriticalThreshold THEN "CRITICAL"
                ELSE IF max_severity > HighThreshold THEN "HIGH"
                ELSE IF max_severity >= MediumThreshold THEN "MEDIUM"
                ELSE "LOW",
             allow_response |-> ~(max_severity >= CriticalThreshold),
             required_disclaimers |-> <<>>]

\* "Determine overall risk": the aggregation over the collected flags.
Aggregate(flags) ==
    IF flags = <<>>
    THEN [flags |-> flags, risk_level |-> "LOW", allow_response |-> TRUE,
          required_disclaimers |-> <<>>]
    ELSE
        LET max_severity == SetMax({flags[i].severity : i \in 1..Len(flags)})
            risk_level ==
                IF max_severity >= CriticalThreshold THEN "CRITICAL"
                ELSE IF max_severity >= HighThreshold THEN "HIGH"
                ELSE IF max_severity >= MediumThreshold THEN "MEDIUM"
                ELSE "LOW"
            level_disclaimers ==
                IF max_severity >= CriticalThreshold THEN <<>>
                ELSE IF max_severity >= HighThreshold THEN <<ConsultDisclaimer>>
                ELSE IF max_severity >= MediumThreshold THEN <<CautionDisclaimer>>
                ELSE <<>>
            pregnancy_disclaimers ==
                IF \E i \in 1..Len(flags) : StartsWithPregnancy(flags[i].description)
                THEN <<PrenatalDisclaimer>>
                ELSE <<>>
        IN  [flags |-> flags,
             risk_level |-> risk_level,
             allow_response |-> ~(max_severity >= CriticalThreshold),
             required_disclaimers |-> level_disclaimers \o pregnancy_disclaimers]

\* Step 1 of evaluate_query: the emergency check.
HasEmergencyTerm(query_lower) ==
    \E term \in emergency_keywords : Contains(term, query_lower)

\* Mutant of evaluate_query: the terms are looked up in the query as typed,
\* not in its lower-case form.
evaluate_query_as_typed(query, order) ==
    IF HasEmergencyTerm(query)
    THEN [flags |-> <<EmergencyFlag>>, risk_level |-> "CRITICAL",
          allow_response |-> FALSE,
          required_disclaimers |-> <<EmergencyDisclaimer>>]
    ELSE Aggregate(PregnancyFlags(query) \o MedicalFlags(query, order))

\* SafetyFilter.evaluate_query; `order` is the iteration order of the
\* medical_conditions set in this process.
evaluate_query(query, order) ==
    LET query_lower == Lower(query)
    IN  IF HasEmergencyTerm(query_lower)
        THEN [flags |-> <<EmergencyFlag>>, risk_level |-> "CRITICAL",
              allow_response |-> FALSE,
              required_disclaimers |-> <<EmergencyDisclaimer>>]
        ELSE Aggregate(PregnancyFlags(query_lower) \o MedicalFlags(query_lower, order))

\* The queries the filter is applied to.
Queries == SeqsUpTo(Vocabulary, MaxQueryLen)

(***************************************************************************)
(* Retrieval engine: RetrievalEngine.initialize and                        *)
(* retrieve_relevant_chunks (backend/services/retrieval/engine.py), over   *)
(* the embedding service and the Chroma index it is wired to.              *)
(***************************************************************************)
MaxBackendResults == 2

\* An Optional request field: <<>> is None, <<v>> is the value v.
\* Python's `field or default`.
OrDefault(field, default) ==
    IF field = <<>> \/ field[1] = 0 THEN default ELSE field[1]

\* The defaults ask_question passes on, min_similarity in tenths.
DefaultMaxChunks == 5

DefaultMinSimilarity == 7

Min(a, b) == IF a <= b THEN a ELSE b

ChunkIds == {"doc_chunk_0", "doc_chunk_1"}

\* Similarity scores (tenths) the index returns for stored chunks.
BackendScores == {6, 7}

BackendHits == [chunk_id : ChunkIds, score : BackendScores, source : {"kb.txt"}]

\* What vector_db.search(query_embedding, k) can return: at most k hits,
\* distinct chunks, best score first.
SearchResults(k) ==
    {r \in SeqsUpTo(BackendHits, Min(k, MaxBackendResults)) :
        /\ \A i, j \in 1..Len(r) : i # j => r[i].chunk_id # r[j].chunk_id
        /\ \A i \in 1..(Len(r) - 1) : r[i].score >= r[i + 1].score}

\* Mutant of FormatAndFilter: the threshold is not applied.
FormatAndFilterNoThreshold(search_results, min_similarity) ==
    [i \in 1..Len(search_results) |->
        [chunk_id |-> search_results[i].chunk_id,
         source |-> search_results[i].source,
         similarity_score |-> search_results[i].score,
         relevance_rank |-> i]]

\* Step 3 of retrieve_relevant_chunks: drop hits below min_similarity and
\* number the kept ones from 1.
FormatAndFilter(search_results, min_similarity) ==
    LET kept == SelectSeq(search_results, LAMBDA res : ~(res.score < min_similarity))
    IN  [i \in 1..Len(kept) |->
            [chunk_id |-> kept[i].chunk_id,
             source |-> kept[i].source,
             similarity_score |-> kept[i].score,
             relevance_rank |-> i]]

\* What the components do during one request: TRUE is success.
RetrievalEnvs ==
    [embedding_init : BOOLEAN,     \* EmbeddingService.initialize in engine.initialize
     db_init : BOOLEAN,            \* vector_db.initialize in engine.initialize
     embedding_reinit : BOOLEAN,   \* EmbeddingService.initialize in retrieve
     embed_query : BOOLEAN,        \* EmbeddingService.embed_query
     db_reinit : BOOLEAN,          \* vector_db.initialize in search
     db_query : BOOLEAN]           \* collection.query

\* RetrievalEngine.initialize: embedding service first, then the index; the
\* first failure raises.  Yields the component state and the calls made.
EngineInitialize(initialized, collection, env) ==
    IF ~initialized /\ ~env.embedding_init
    THEN [initialized |-> FALSE, collection |-> collection, raised |-> TRUE,
          calls |-> <<[op |-> "embedding.initialize", ok |-> FALSE]>>]
    ELSE [initialized |-> TRUE,
          collection |-> IF env.db_init THEN TRUE ELSE collection,
          raised |-> ~env.db_init,
          calls |-> <<[op |-> "embedding.initialize", ok |-> TRUE],
                      [op |-> "vector_db.initialize", ok |-> env.db_init]>>]

\* ChromaService.search: initializes when there is no collection, then
\* queries; any failure raises RetrievalError.
VectorSearch(collection, env, hits) ==
    IF ~collection /\ ~env.db_reinit
    THEN [collection |-> FALSE, raised |-> TRUE, results |-> <<>>]
    ELSE IF ~env.db_query
    THEN [collection |-> TRUE, raised |-> TRUE, results |-> <<>>]
    ELSE [collection |-> TRUE, raised |-> FALSE, results |-> hits]

\* RetrievalEngine.retrieve_relevant_chunks.  A failing embedding service
\* raises RetrievalError; a failing search counts as no hits.
RetrieveRelevantChunks(initialized, collection, env, hits, min_similarity) ==
    IF ~initialized /\ ~env.embedding_reinit
    THEN [initialized |-> FALSE, collection |-> collection, raised |-> TRUE,
          failed |-> TRUE, results |-> <<>>,
          calls |-> <<[op |-> "embedding.initialize", ok |-> FALSE]>>]
    ELSE IF ~env.embed_query
    THEN [initialized |-> TRUE, collection |-> collection, raised |-> TRUE,
          failed |-> TRUE, results |-> <<>>,
          calls |-> <<[op |-> "embed_query", ok |-> FALSE]>>]
    ELSE
        LET search == VectorSearch(collection, env, hits)
        IN  [initialized |-> TRUE, collection |-> search.collection,
             raised |-> FALSE, failed |-> search.raised,
             results |-> FormatAndFilter(search.results, min_similarity),
             calls |-> <<[op |-> "embed_query", ok |-> TRUE],
                         [op |-> "vector_db.search", ok |-> ~search.raised]>>]

(***************************************************************************)
(* Response generator: ResponseGenerator.__init__ and generate_response    *)
(* (backend/services/generation/service.py).                               *)
(***************************************************************************)

\* Confidence of a generated answer, in tenths.
FullConfidence == 10

\* The clients __init__ leaves behind for a configuration.
GeneratorClients(use_nvidia_llm, nvidia_constructs, use_openai, openai_installed) ==
    LET nvidia == use_nvidia_llm /\ nvidia_constructs
    IN  [nvidia_client |-> nvidia,
         openai_client |-> use_openai /\ ~nvidia /\ openai_installed,
         use_openai |-> use_openai]

\* What the LLM providers do during one request: TRUE is success.
GenerationEnvs ==
    [generator_init : BOOLEAN,   \* ResponseGenerator.initialize
     nvidia : BOOLEAN,           \* nvidia_client.generate
     openai : BOOLEAN,           \* openai_client.chat.completions.create
     format : BOOLEAN]           \* everything else inside the outer try

\* Step 3 of generate_response: the content and confidence of the reply
\* and the LLM calls made for it.
CallLLM(context, clients, env) ==
    IF clients.nvidia_client
    THEN IF env.nvidia
         THEN [content |-> "llm", confidence |-> FullConfidence,
               calls |-> <<[op |-> "llm.nvidia", ok |-> TRUE]>>]
         ELSE IF clients.openai_client /\ clients.use_openai
         THEN IF env.openai
              THEN [content |-> "llm", confidence |-> FullConfidence,
                    calls |-> <<[op |-> "llm.nvidia", ok |-> FALSE],
                                [op |-> "llm.openai", ok |-> TRUE]>>]
              ELSE [content |-> "apology", confidence |-> 0,
                    calls |-> <<[op |-> "llm.nvidia", ok |-> FALSE],
                                [op |-> "llm.openai", ok |-> FALSE]>>]
         ELSE [content |-> "apology", confidence |-> 0,
               calls |-> <<[op |-> "llm.nvidia", ok |-> FALSE]>>]
    ELSE IF clients.openai_client /\ clients.use_openai
    THEN IF env.openai
         THEN [content |-> "llm", confidence |-> FullConfidence,
               calls |-> <<[op |-> "llm.openai", ok |-> TRUE]>>]
         ELSE [content |-> "apology", confidence |-> 0,
               calls |-> <<[op |-> "llm.openai", ok |-> FALSE]>>]
    ELSE IF context # <<>>
    THEN [content |-> "mock_excerpt", confidence |-> FullConfidence, calls |-> <<>>]
    ELSE [content |-> "mock_no_information", confidence |-> 0, calls |-> <<>>]

\* Mutant of FormatCitations: only the best result is cited.
FormatCitationsTopOnly(context) ==
    [i \in 1..Min(1, Len(context)) |->
        [source |-> context[i].source,
         chunk_id |-> context[i].chunk_id,
         relevance_score |-> context[i].similarity_score]]

\* Step 4 of generate_response: one citation per context entry.
FormatCitations(context) ==
    [i \in 1..Len(context) |->
        [source |-> context[i].source,
         chunk_id |-> context[i].chunk_id,
         relevance_score |-> context[i].similarity_score]]

\* Step 5 of generate_response: the safety notices of the reply.
SafetyNotices(assessment) ==
    IF ~assessment.allow_response /\ assessment.flags # <<>>
    THEN assessment.required_disclaimers
    ELSE <<>>

\* ResponseGenerator.generate_response when nothing raises out of it.
GenerateResponse(context, assessment, clients, env) ==
    LET llm == CallLLM(context, clients, env)
    IN  [content |-> llm.content,
         sources |-> FormatCitations(context),
         confidence |-> llm.confidence,
         safety_notices |-> SafetyNotices(assessment)]

(***************************************************************************)
(* Request handler: ask_question (backend/api/routes.py).                  *)
(***************************************************************************)
MaxRequests == 2

\* The assessment ask_question substitutes when the filter raises.
PermissiveAssessment ==
    [flags |-> <<>>, risk_level |-> "LOW", allow_response |-> TRUE,
     required_disclaimers |-> <<>>]

\* The reply of a blocked request.
BlockedResponse(assessment) ==
    [content |-> "blocked", sources |-> <<>>, confidence |-> 0,
     safety_notices |-> assessment.required_disclaimers]

\* The reply ask_question substitutes when generation raises.
GenerationErrorResponse ==
    [content |-> "apology_error", sources |-> <<>>, confidence |-> 0,
     safety_notices |-> <<>>]

\* incident_type of the SafetyIncident of a blocked request.
IncidentType(assessment) ==
    IF assessment.flags # <<>> THEN assessment.flags[1].type ELSE "MEDICAL_ADVICE"

\* The queries of the requests: one per kind of assessment.
RequestQueries == {<<"yoga">>, <<"Pregnant">>, <<"heart", "attack">>}

\* The requests: each optional field absent and present, min_similarity
\* also 0.
Requests ==
    [query : RequestQueries,
     max_chunks : {<<>>, <<1>>},
     min_similarity : {<<>>, <<0>>, <<6>>}]

(***************************************************************************)
(* Rate limiter: RateLimiter and get_rate_limiter                          *)
(* (backend/core/rate_limiter.py).  Time is in whole seconds.              *)
(***************************************************************************)
MaxTime == 3

MaxAdmissionChecks == 4

\* The largest RateLimiter.requests_limit configured, and
\* RateLimiter.window_seconds, scaled down.
MaxLimit == 2

window_seconds == 2

\* RateLimiter.requests_limit, as configured (settings.rate_limit_requests).
VARIABLE requests_limit

\* request.client.host of the callers; "unknown" stands for no client.
ClientIds == {"10.0.0.1", "unknown"}

\* f"rate_limit:{key}:{int(now // self.window_seconds)}"
WindowKey(key, time) == <<key, time \div window_seconds>>

\* The keys a store can hold.
WindowKeys == {WindowKey(c, t) : c \in ClientIds, t \in 0..(MaxTime + 1)}

\* Mutant of RedisLimited: the count is compared with limit + 1, which lets
\* one more request through per window.
RedisLimitedOffByOne(count) == count > requests_limit + 1

\* `return count > self.requests_limit`
RedisLimited(count) == count > requests_limit

\* The in-memory fallback of is_rate_limited: the entry of the key after
\* the call, and whether the call is limited.
InMemoryCheck(entry, current_time) ==
    IF entry = <<>>
    THEN [entry |-> <<[count |-> 1, start_time |-> current_time]>>, limited |-> FALSE]
    ELSE IF current_time - entry[1].start_time > window_seconds
    THEN [entry |-> <<[count |-> 1, start_time |-> current_time]>>, limited |-> FALSE]
    ELSE IF entry[1].count >= requests_limit
    THEN [entry |-> entry, limited |-> TRUE]
    ELSE [entry |-> <<[count |-> entry[1].count + 1,
                       start_time |-> entry[1].start_time]>>,
          limited |-> FALSE]

\* The pipeline of is_rate_limited on the shared store: INCR, then EXPIRE
\* with window_seconds + 1.
RedisIncrExpire(store, window_key, time) ==
    [store EXCEPT ![window_key] =
        [count |-> @.count + 1, expires_at |-> time + window_seconds + 1]]

\* Mutant of RedisCheck: an error of the shared store rejects the request.
RedisCheckFailClosed(store, window_key, time, reachable) ==
    IF reachable
    THEN LET counted == RedisIncrExpire(store, window_key, time)
         IN  [store |-> counted,
              limited |-> RedisLimited(counted[window_key].count),
              error |-> FALSE]
    ELSE [store |-> store, limited |-> TRUE, error |-> TRUE]

\* The shared-store branch of is_rate_limited: the pipeline runs and the
\* count is compared with the limit; any exception of the store is caught
\* and the call returns False.
RedisCheck(store, window_key, time, reachable) ==
    IF reachable
    THEN LET counted == RedisIncrExpire(store, window_key, time)
         IN  [store |-> counted,
              limited |-> RedisLimited(counted[window_key].count),
              error |-> FALSE]
    ELSE [store |-> store, limited |-> FALSE, error |-> TRUE]

\* Keys of the shared store that have expired at `time` are gone.
RedisExpire(store, time) ==
    [k \in DOMAIN store |->
        IF store[k].count > 0 /\ store[k].expires_at <= time
        THEN [count |-> 0, expires_at |-> 0]
        ELSE store[k]]

(***************************************************************************)
(* Embedding cache: EmbeddingCache (backend/services/embeddings/service.py). *)
(* Time is in whole hours.                                                 *)
(***************************************************************************)
MaxCacheSize == 2

MaxCacheTime == 2

\* EmbeddingCache.ttl (ttl_hours), scaled down.
CacheTTL == 2

\* Texts to embed, as strings of characters.
CacheTexts == {<<"x">>, <<"v", ":", "x">>}

\* The (model name, text) pairs a caller asks for, as strings of
\* characters.
CachePairs ==
    {<<<<"m">>, <<"x">>>>, <<<<"m">>, <<"v", ":", "x">>>>,
     <<<<"m", ":", "v">>, <<"x">>>>}

\* The declared dimension of the providers' configurations.
ProviderDimension(provider) == IF provider = "nvidia" THEN 1024 ELSE 384

Providers == {"nvidia", "sentence_transformer"}

\* The vector a provider computes for `text`, and the vector of zeros.
EmbeddingOf(text, provider) ==
    [of |-> text, zero |-> FALSE, dimension |-> ProviderDimension(provider)]

ZeroVector(provider) ==
    [of |-> <<>>, zero |-> TRUE, dimension |-> ProviderDimension(provider)]

\* Vectors handed to the cache by its callers.
Vectors == {EmbeddingOf(t, "sentence_transformer") : t \in CacheTexts}

\* EmbeddingCache._generate_key: the content f"{model_name}:{text}" that
\* is hashed; the md5 digest is taken as one-to-one on the content.
GenerateKey(text, model_name) == model_name \o <<":">> \o text

CacheKeys == {GenerateKey(p[2], p[1]) : p \in CachePairs}

\* EmbeddingCache._cache as constructed: no key is stored.
EmptyCache == [k \in CacheKeys |-> <<>>]

StoredKeys(cache) == {k \in DOMAIN cache : cache[k] # <<>>}

\* EmbeddingCache.size
CacheSize(cache) == Cardinality(StoredKeys(cache))

\* EmbeddingCache.get: the value returned (<<>> is None), the cache after
\* the call and the keys the call removed.
CacheGet(cache, text, model_name, time) ==
    LET key == GenerateKey(text, model_name)
    IN  IF cache[key] # <<>>
        THEN IF time - cache[key][1].timestamp < CacheTTL
             THEN [value |-> <<cache[key][1].embedding>>, cache |-> cache,
                   removed |-> {}]
             ELSE [value |-> <<>>, cache |-> [cache EXCEPT ![key] = <<>>],
                   removed |-> {key}]
        ELSE [value |-> <<>>, cache |-> cache, removed |-> {}]

\* The keys min(..., key=timestamp) can pick: those of the oldest entries.
OldestKeys(cache) ==
    {k \in StoredKeys(cache) :
        \A j \in StoredKeys(cache) :
            cache[k][1].timestamp <= cache[j][1].timestamp}

\* Mutant of CacheSet: a full cache evicts nothing.
CacheSetNoEviction(cache, text, model_name, embedding, time, max_size) ==
    {[cache |-> [cache EXCEPT ![GenerateKey(text, model_name)] =
                    <<[embedding |-> embedding, timestamp |-> time]>>],
      raised |-> FALSE, removed |-> {}]}

\* EmbeddingCache.set: the outcomes of the call.  A cache at max_size first
\* deletes one of its oldest entries (min over no keys raises ValueError),
\* then the entry is stored under its key.
CacheSet(cache, text, model_name, embedding, time, max_size) ==
    LET key == GenerateKey(text, model_name)
        entry == [embedding |-> embedding, timestamp |-> time]
    IN  IF CacheSize(cache) >= max_size
        THEN IF StoredKeys(cache) = {}
             THEN {[cache |-> cache, raised |-> TRUE, removed |-> {}]}
             ELSE {[cache |-> [[cache EXCEPT ![oldest] = <<>>]
                                  EXCEPT ![key] = <<entry>>],
                    raised |-> FALSE, removed |-> {oldest}] :
                      oldest \in OldestKeys(cache)}
        ELSE {[cache |-> [cache EXCEPT ![key] = <<entry>>],
               raised |-> FALSE, removed |-> {}]}

\* EmbeddingCache.clear
CacheClear(cache) == EmptyCache

(***************************************************************************)
(* Embedding service: EmbeddingService.embed_texts and embed_query over    *)
(* its provider and its cache (backend/services/embeddings/).              *)
(***************************************************************************)
MaxTexts == 2

\* self._service.config.model_name of the service.
ServiceModel == <<"m">>

\* The cache lookups of embed_texts, text by text: the cache after them
\* and, by position, <<>> for a miss or <<vector>> for a hit.
RECURSIVE ScanCache(_, _, _)
ScanCache(cache, texts, time) ==
    IF texts = <<>> THEN [cache |-> cache, values |-> <<>>]
    ELSE LET got == CacheGet(cache, Head(texts), ServiceModel, time)
             rest == ScanCache(got.cache, Tail(texts), time)
         IN  [cache |-> rest.cache, values |-> <<got.value>> \o rest.values]

\* The positions of the misses, in order (cache_indices).
RECURSIVE CacheIndices(_, _)
CacheIndices(values, from) ==
    IF from > Len(values) THEN <<>>
    ELSE (IF values[from] = <<>> THEN <<from>> ELSE <<>>)
            \o CacheIndices(values, from + 1)

\* provider.embed_texts on one batch.  The SentenceTransformer service
\* raises EmbeddingError when the model fails; the NVIDIA service catches
\* the failure of the API call and puts zero vectors for the batch.
ProviderEmbedTexts(provider, texts, api_ok) ==
    IF api_ok
    THEN [raised |-> FALSE,
          embeddings |-> [i \in 1..Len(texts) |-> EmbeddingOf(texts[i], provider)]]
    ELSE IF provider = "nvidia"
    THEN [raised |-> FALSE,
          embeddings |-> [i \in 1..Len(texts) |-> ZeroVector(provider)]]
    ELSE [raised |-> TRUE, embeddings |-> <<>>]

\* The loop `for text, embedding in zip(...): self.cache.set(...)`: the
\* caches it can end with, and whether a set raised.
RECURSIVE StoreEach(_, _, _, _, _)
StoreEach(cache, texts, embeddings, time, max_size) ==
    IF texts = <<>> \/ embeddings = <<>> THEN {[cache |-> cache, raised |-> FALSE]}
    ELSE UNION {IF out.raised THEN {[cache |-> out.cache, raised |-> TRUE]}
                ELSE StoreEach(out.cache, Tail(texts), Tail(embeddings), time,
                               max_size) :
                   out \in CacheSet(cache, Head(texts), ServiceModel,
                                    Head(embeddings), time, max_size)}

\* Mutant of Splice: the cached vectors come first, the new ones after.
SpliceCachedFirst(values, cache_indices, embeddings) ==
    LET cached == SelectSeq(values, LAMBDA v : v # <<>>)
    IN  [i \in 1..Len(cached) |-> cached[i][1]] \o embeddings

\* "Combine cached and new embeddings in original order".
Splice(values, cache_indices, embeddings) ==
    [i \in 1..Len(values) |->
        IF values[i] # <<>> THEN values[i][1]
        ELSE embeddings[CHOOSE k \in 1..Len(cache_indices) : cache_indices[k] = i]]

\* EmbeddingService.embed_texts on an initialized service with its cache
\* enabled: the outcomes of the call.
EmbedTexts(cache, texts, use_cache, provider, api_ok, time, max_size) ==
    IF texts = <<>>
    THEN {[cache |-> cache, raised |-> FALSE, embeddings |-> <<>>,
           provider_called |-> FALSE, provider_texts |-> <<>>,
           provider_returned |-> <<>>]}
    ELSE
      LET scan == IF use_cache THEN ScanCache(cache, texts, time)
                  ELSE [cache |-> cache, values |-> [i \in 1..Len(texts) |-> <<>>]]
          cache_indices == CacheIndices(scan.values, 1)
          texts_to_embed == [k \in 1..Len(cache_indices) |-> texts[cache_indices[k]]]
          result == ProviderEmbedTexts(provider, texts_to_embed, api_ok)
      IN  IF texts_to_embed = <<>>
          THEN {[cache |-> scan.cache, raised |-> FALSE,
                 embeddings |-> Splice(scan.values, cache_indices, <<>>),
                 provider_called |-> FALSE, provider_texts |-> <<>>,
                 provider_returned |-> <<>>]}
          ELSE IF result.raised
          THEN {[cache |-> scan.cache, raised |-> TRUE, embeddings |-> <<>>,
                 provider_called |-> TRUE, provider_texts |-> texts_to_embed,
                 provider_returned |-> <<>>]}
          ELSE {[cache |-> stored.cache, raised |-> stored.raised,
                 embeddings |->
                     IF stored.raised THEN <<>>
                     ELSE Splice(scan.values, cache_indices, result.embeddings),
                 provider_called |-> TRUE, provider_texts |-> texts_to_embed,
                 provider_returned |-> result.embeddings] :
                   stored \in
                     IF use_cache
                     THEN StoreEach(scan.cache, texts_to_embed,
                                    result.embeddings, time, max_size)
                     ELSE {[cache |-> scan.cache, raised |-> FALSE]}}

\* EmbeddingService.embed_query: an empty query raises, a cached vector is
\* returned at once, anything else goes through embed_texts([query]).
EmbedQuery(cache, query, use_cache, provider, api_ok, time, max_size) ==
    IF query = <<>>
    THEN {[cache |-> cache, raised |-> TRUE, embeddings |-> <<>>,
           provider_called |-> FALSE, provider_texts |-> <<>>,
           provider_returned |-> <<>>]}
    ELSE LET got == IF use_cache THEN CacheGet(cache, query, ServiceModel, time)
                    ELSE [value |-> <<>>, cache |-> cache, removed |-> {}]
         IN  IF got.value # <<>>
             THEN {[cache |-> got.cache, raised |-> FALSE,
                    embeddings |-> got.value,
                    provider_called |-> FALSE, provider_texts |-> <<>>,
                    provider_returned |-> <<>>]}
             ELSE EmbedTexts(got.cache, <<query>>, use_cache, provider, api_ok,
                             time, max_size)

(***************************************************************************)
(* Construction and lazy initialization of the embedding service:          *)
(* get_embedding_service (backend/api/dependencies.py) and                 *)
(* EmbeddingService.initialize, called by coroutines of concurrent         *)
(* requests.                                                               *)
(***************************************************************************)
MaxCoroutines == 2

MaxInitCalls == 4

Coroutines == 1..MaxCoroutines

\* get_embedding_service: the NVIDIA provider when its API key is set and
\* the EmbeddingService object can be constructed, else SentenceTransformer.
GetEmbeddingService(nvidia_embedding_api_key, service_constructs) ==
    IF nvidia_embedding_api_key /\ service_constructs
    THEN "nvidia"
    ELSE "sentence_transformer"

\* Whether `await self._service.initialize()` suspends the coroutine: the
\* SentenceTransformer service awaits the model load in the executor, the
\* NVIDIA service only creates its session and never awaits.
InitializeSuspends(p) == p = "sentence_transformer"

(***************************************************************************)
(* Vector index: ChromaService and PineconeService                         *)
(* (backend/services/retrieval/vector_db.py).  A collection is a record    *)
(* of whether it exists, the dimension recorded for it (<<>> when none)    *)
(* and, by chunk id, <<>> or <<the dimension of the stored vector>>.  The  *)
(* index library refuses a vector whose dimension differs from the one the *)
(* collection is bound to: for Chroma the dimension of the vectors it      *)
(* holds, for Pinecone the dimension the index was created with.           *)
(***************************************************************************)
Dimensions == {ProviderDimension(p) : p \in Providers}

Backends == {"chroma", "pinecone"}

NoVectors == [id \in ChunkIds |-> <<>>]

NoCollection == [exists |-> FALSE, dimension |-> <<>>, vectors |-> NoVectors]

StoredIds(collection) == {id \in ChunkIds : collection.vectors[id] # <<>>}

\* collection.count()
Count(collection) == Cardinality(StoredIds(collection))

\* The dimension the library holds the collection to, <<>> when any
\* dimension is accepted.
BoundDimension(backend, collection) ==
    IF backend = "pinecone" THEN collection.dimension
    ELSE IF StoredIds(collection) = {} THEN <<>>
    ELSE collection.vectors[CHOOSE id \in StoredIds(collection) : TRUE]

Accepts(backend, collection, dim) ==
    BoundDimension(backend, collection) \in {<<>>, <<dim>>}

\* create_collection(name, metadata={"dimension": dim})
CreateCollection(dim) ==
    [exists |-> TRUE, dimension |-> <<dim>>, vectors |-> NoVectors]

\* The collections a store can hold when the process starts: none, or one
\* left by an earlier run, with or without a recorded dimension, empty or
\* filled with vectors of one dimension.
PersistedCollections(backend) ==
    {NoCollection}
      \cup {c \in [exists : {TRUE},
                   dimension : {<<>>} \cup {<<d>> : d \in Dimensions},
                   vectors : [ChunkIds -> {<<>>} \cup {<<d>> : d \in Dimensions}]] :
              /\ \A i, j \in StoredIds(c) : c.vectors[i] = c.vectors[j]
              /\ backend = "pinecone" =>
                    /\ c.dimension # <<>>
                    /\ \A i \in StoredIds(c) : c.vectors[i] = c.dimension}

\* ChromaService.initialize / PineconeService.initialize on the store:
\* Chroma takes the existing collection unless its recorded dimension
\* differs from settings.embedding_dimension, in which case it deletes and
\* recreates it; a missing collection is created.  Pinecone creates the
\* index when it is not listed.
IndexInitialize(backend, collection, expected_dim, connects) ==
    IF ~connects
    THEN [collection |-> collection, handle |-> FALSE, raised |-> TRUE,
          recreated |-> FALSE]
    ELSE IF ~collection.exists
    THEN [collection |-> CreateCollection(expected_dim), handle |-> TRUE,
          raised |-> FALSE, recreated |-> FALSE]
    ELSE IF /\ backend = "chroma"
            /\ collection.dimension # <<>>
            /\ collection.dimension # <<expected_dim>>
    THEN [collection |-> CreateCollection(expected_dim), handle |-> TRUE,
          raised |-> FALSE, recreated |-> TRUE]
    ELSE [collection |-> collection, handle |-> TRUE, raised |-> FALSE,
          recreated |-> FALSE]

\* The dimension check at the head of ChromaService.search: when the
\* collection holds vectors, peek at one and recreate the collection with
\* the dimension of the query when the two differ.  PineconeService.search
\* has no such check.
DimensionCheck(backend, collection, embedding_dim) ==
    IF /\ backend = "chroma"
       /\ Count(collection) > 0
       /\ BoundDimension(backend, collection) # <<embedding_dim>>
    THEN [collection |-> CreateCollection(embedding_dim), recreated |-> TRUE]
    ELSE [collection |-> collection, recreated |-> FALSE]

\* search(query_embedding, k) on an initialized index: the dimension
\* check, then the query; an error of the query is raised as
\* RetrievalError.  The result is the ids found.
IndexSearch(backend, collection, embedding_dim) ==
    LET checked == DimensionCheck(backend, collection, embedding_dim)
    IN  IF Accepts(backend, checked.collection, embedding_dim)
        THEN [collection |-> checked.collection, raised |-> FALSE,
              results |-> StoredIds(checked.collection),
              recreated |-> checked.recreated]
        ELSE [collection |-> checked.collection, raised |-> TRUE,
              results |-> {}, recreated |-> checked.recreated]

\* upsert_chunks(chunks, embeddings) on an initialized index.
IndexUpsert(backend, collection, ids, dim) ==
    IF Accepts(backend, collection, dim)
    THEN [collection |->
              [collection EXCEPT !.vectors =
                  [id \in ChunkIds |-> IF id \in ids THEN <<dim>> ELSE @[id]]],
          raised |-> FALSE]
    ELSE [collection |-> collection, raised |-> TRUE]

(***************************************************************************)
(* Chunking: ChunkingService.chunk_text and _validate_chunks               *)
(* (backend/services/chunking/service.py) over SemanticChunker             *)
(* (src/services/chunking/semantic_chunker.py) and DocumentProcessor.      *)
(* A text is a sequence of words; between two words stands one blank, and  *)
(* the item ParagraphBreak stands for a blank line.  The tokenizer is      *)
(* taken to give one token per item.                                       *)
(***************************************************************************)
MaxChunkTokens == 7

MaxOverlap == 1

MaxBlocks == 2

MaxRuns == 2

\* len(chunk.content.strip()) < 10
MinContentChars == 10

\* chunk.metadata.tokens < 5
MinTokens == 5

ParagraphBreak == "BLANK_LINE"

ChunkWords == {"Om", "Om.", "breathe", "breathe.", "108", "108."}

\* len(word)
WordChars(w) ==
    CASE w \in {"Om", ParagraphBreak} -> 2
      [] w \in {"Om.", "108"} -> 3
      [] w = "108." -> 4
      [] w = "breathe" -> 7
      [] w = "breathe." -> 8

\* re.search(r'[a-zA-Z]{3,}', word)
HasAlphabeticRun(w) == w \in {"breathe", "breathe."}

\* The word ends with sentence-terminating punctuation.
EndsSentence(w) == w \in {"Om.", "breathe.", "108."}

\* The word without the terminator the sentence split consumes.
WithoutTerminator(w) ==
    CASE w = "Om." -> "Om"
      [] w = "breathe." -> "breathe"
      [] w = "108." -> "108"
      [] OTHER -> w

\* len(text) of a trimmed text: the items and the blanks between words.
RECURSIVE TextChars(_)
TextChars(text) ==
    IF text = <<>> THEN 0
    ELSE WordChars(Head(text))
           + (IF /\ Len(text) > 1
                 /\ Head(text) # ParagraphBreak
                 /\ text[2] # ParagraphBreak
              THEN 1 ELSE 0)
           + TextChars(Tail(text))

\* SemanticChunker.estimate_tokens
EstimateTokens(text) == Len(text)

\* text.split()
SplitWords(text) == SelectSeq(text, LAMBDA w : w # ParagraphBreak)

\* DocumentProcessor._clean_text: every run of whitespace, blank lines
\* included, becomes one blank; the text is trimmed.
CleanText(text) == SelectSeq(text, LAMBDA w : w # ParagraphBreak)

\* SemanticChunker._preprocess_content: the same collapse of whitespace.
PreprocessContent(content) == SelectSeq(content, LAMBDA w : w # ParagraphBreak)

\* SemanticChunker._split_into_paragraphs: split at blank lines, drop the
\* empty pieces; `open` is the paragraph under way.
RECURSIVE SplitIntoParagraphs(_, _)
SplitIntoParagraphs(content, open) ==
    IF content = <<>> THEN (IF open = <<>> THEN <<>> ELSE <<open>>)
    ELSE IF Head(content) = ParagraphBreak
    THEN (IF open = <<>> THEN <<>> ELSE <<open>>)
            \o SplitIntoParagraphs(Tail(content), <<>>)
    ELSE SplitIntoParagraphs(Tail(content), Append(open, Head(content)))

\* SemanticChunker._split_into_sentences: split where a terminator is
\* followed by whitespace; the terminator is consumed.
RECURSIVE SplitIntoSentences(_, _)
SplitIntoSentences(text, open) ==
    IF text = <<>> THEN (IF open = <<>> THEN <<>> ELSE <<open>>)
    ELSE IF EndsSentence(Head(text)) /\ Tail(text) # <<>>
    THEN <<Append(open, WithoutTerminator(Head(text)))>>
            \o SplitIntoSentences(Tail(text), <<>>)
    ELSE SplitIntoSentences(Tail(text), Append(open, Head(text)))

\* SemanticChunker._get_overlap_text: the last chunk_overlap words.
GetOverlapText(text, chunk_overlap) ==
    LET words == SplitWords(text)
    IN  IF Len(words) > chunk_overlap
        THEN SubSeq(words, Len(words) - chunk_overlap + 1, Len(words))
        ELSE words

\* f"{document_id}_chunk_{chunk_index}"
ChunkIdOf(document_id, chunk_index) == <<document_id, "_chunk_", chunk_index>>

\* SemanticChunker._create_chunk
CreateChunk(content, chunk_index, document_id, category) ==
    [id |-> ChunkIdOf(document_id, chunk_index),
     content |-> content,
     document_id |-> document_id,
     chunk_index |-> chunk_index,
     category |-> category,
     tokens |-> EstimateTokens(content)]

\* The loop of _split_large_paragraph over the sentences and its final
\* chunk; acc holds chunks, current_chunk_text, current_chunk_tokens and
\* chunk_index.
RECURSIVE PackSentences(_, _, _, _, _)
PackSentences(sentences, acc, document_id, category, config) ==
    IF sentences = <<>>
    THEN IF acc.text # <<>>
         THEN Append(acc.chunks,
                     CreateChunk(acc.text, acc.index, document_id, category))
         ELSE acc.chunks
    ELSE
      LET sentence == Head(sentences)
          sentence_tokens == EstimateTokens(sentence)
          overlap_text == GetOverlapText(acc.text, config.chunk_overlap)
      IN  IF acc.tokens + sentence_tokens > config.chunk_size /\ acc.text # <<>>
          THEN PackSentences(Tail(sentences),
                   [chunks |-> Append(acc.chunks,
                                      CreateChunk(acc.text, acc.index,
                                                  document_id, category)),
                    index |-> acc.index + 1,
                    text |-> IF config.chunk_overlap > 0
                             THEN overlap_text \o sentence ELSE sentence,
                    tokens |-> IF config.chunk_overlap > 0
                               THEN EstimateTokens(overlap_text) + sentence_tokens
                               ELSE sentence_tokens],
                   document_id, category, config)
          ELSE PackSentences(Tail(sentences),
                   [acc EXCEPT !.text = @ \o sentence,
                               !.tokens = @ + sentence_tokens],
                   document_id, category, config)

\* SemanticChunker._split_large_paragraph
SplitLargeParagraph(paragraph, start_index, document_id, category, config) ==
    PackSentences(SplitIntoSentences(paragraph, <<>>),
                  [chunks |-> <<>>, text |-> <<>>, tokens |-> 0,
                   index |-> start_index],
                  document_id, category, config)

\* Mutant of FinalChunk: the residual buffer is always emitted.
FinalChunkAlways(acc, document_id, category, config) ==
    IF acc.text # <<>>
    THEN Append(acc.chunks,
                CreateChunk(acc.text, acc.index, document_id, category))
    ELSE acc.chunks

\* "Add final chunk if it has content" of _create_chunks_from_paragraphs.
FinalChunk(acc, document_id, category, config) ==
    IF acc.text # <<>> /\ acc.tokens >= config.min_chunk_size
    THEN Append(acc.chunks,
                CreateChunk(acc.text, acc.index, document_id, category))
    ELSE acc.chunks

\* The loop of _create_chunks_from_paragraphs over the paragraphs and its
\* final chunk.
RECURSIVE PackParagraphs(_, _, _, _, _)
PackParagraphs(paragraphs, acc, document_id, category, config) ==
    IF paragraphs = <<>>
    THEN FinalChunk(acc, document_id, category, config)
    ELSE
      LET paragraph == Head(paragraphs)
          paragraph_tokens == EstimateTokens(paragraph)
          flushed ==
              IF acc.text # <<>>
              THEN [chunks |-> Append(acc.chunks,
                                      CreateChunk(acc.text, acc.index,
                                                  document_id, category)),
                    index |-> acc.index + 1, text |-> <<>>, tokens |-> 0]
              ELSE acc
          sentence_chunks ==
              SplitLargeParagraph(paragraph, flushed.index, document_id,
                                  category, config)
          overlap_text == GetOverlapText(acc.text, config.chunk_overlap)
      IN  IF paragraph_tokens > config.max_chunk_size
          THEN PackParagraphs(Tail(paragraphs),
                   [flushed EXCEPT !.chunks = @ \o sentence_chunks,
                                   !.index = @ + Len(sentence_chunks)],
                   document_id, category, config)
          ELSE IF /\ acc.tokens + paragraph_tokens > config.chunk_size
                  /\ acc.text # <<>>
          THEN PackParagraphs(Tail(paragraphs),
                   [chunks |-> Append(acc.chunks,
                                      CreateChunk(acc.text, acc.index,
                                                  document_id, category)),
                    index |-> acc.index + 1,
                    text |-> IF config.chunk_overlap > 0
                             THEN overlap_text \o <<ParagraphBreak>> \o paragraph
                             ELSE paragraph,
                    tokens |-> IF config.chunk_overlap > 0
                               THEN EstimateTokens(overlap_text) + paragraph_tokens
                               ELSE paragraph_tokens],
                   document_id, category, config)
          ELSE PackParagraphs(Tail(paragraphs),
                   [acc EXCEPT
                       !.text = IF @ # <<>>
                                THEN @ \o <<ParagraphBreak>> \o paragraph
                                ELSE paragraph,
                       !.tokens = @ + paragraph_tokens],
                   document_id, category, config)

\* SemanticChunker._create_chunks_from_paragraphs
CreateChunksFromParagraphs(paragraphs, document_id, category, config) ==
    PackParagraphs(paragraphs,
                   [chunks |-> <<>>, text |-> <<>>, tokens |-> 0, index |-> 0],
                   document_id, category, config)

\* SemanticChunker.chunk_document
ChunkDocument(content, document_id, category, config) ==
    CreateChunksFromParagraphs(
        SplitIntoParagraphs(PreprocessContent(content), <<>>),
        document_id, category, config)

\* The three tests of _validate_chunks on one text and its token count.
PassesValidation(content, tokens) ==
    /\ TextChars(content) >= MinContentChars
    /\ \E i \in 1..Len(content) : HasAlphabeticRun(content[i])
    /\ tokens >= MinTokens

\* Mutant of ValidateChunks: every chunk is kept.
ValidateChunksKeepsAll(chunks) == chunks

\* ChunkingService._validate_chunks
ValidateChunks(chunks) ==
    SelectSeq(chunks, LAMBDA chunk : PassesValidation(chunk.content, chunk.tokens))

\* Mutant of ChunkText: a fresh uuid is drawn even when the caller gives a
\* document_id.
ChunkTextFreshId(content, document_id, uuid, category, config) ==
    LET processed_content == CleanText(content)
        chunks == ChunkDocument(processed_content, uuid, category, config)
    IN  [document_id |-> uuid, emitted |-> chunks,
         chunks |-> ValidateChunks(chunks)]

\* ChunkingService.chunk_text; document_id is <<>> when the caller gives
\* none, and uuid is then what uuid.uuid4() returns.
ChunkText(content, document_id, uuid, category, config) ==
    LET id == IF document_id = <<>> THEN uuid ELSE document_id[1]
        processed_content == CleanText(content)
        chunks == ChunkDocument(processed_content, id, category, config)
    IN  [document_id |-> id, emitted |-> chunks,
         chunks |-> ValidateChunks(chunks)]

\* The sentences the bounded documents are made of: a one-word sentence,
\* a sentence of five words, a sentence of five numbers and a sentence
\* longer than every max_chunk_size.
Blocks ==
    {<<"Om.">>,
     <<"breathe", "breathe", "breathe", "breathe", "breathe.">>,
     <<"108", "108", "108", "108", "108.">>,
     [i \in 1..(MaxChunkTokens + 1) |->
         IF i = MaxChunkTokens + 1 THEN "breathe." ELSE "breathe"]}

\* The parts joined, sep standing between two of them.
RECURSIVE Join(_, _)
Join(parts, sep) ==
    IF parts = <<>> THEN <<>>
    ELSE IF Len(parts) = 1 THEN Head(parts)
    ELSE Head(parts) \o sep \o Join(Tail(parts), sep)

\* Documents: up to MaxBlocks sentences, separated by blanks or by blank
\* lines.
Documents ==
    {Join(parts, sep) : parts \in SeqsUpTo(Blocks, MaxBlocks),
                        sep \in {<<>>, <<ParagraphBreak>>}}

\* ChunkingConfig values: min_chunk_size <= chunk_size <= max_chunk_size.
ChunkingConfigs ==
    {c \in [chunk_size : 5..MaxChunkTokens, chunk_overlap : 0..MaxOverlap,
            min_chunk_size : 4..MaxChunkTokens,
            max_chunk_size : 6..MaxChunkTokens] :
        c.min_chunk_size <= c.chunk_size /\ c.chunk_size <= c.max_chunk_size}

DocumentIds == {"doc"}

\* Values of uuid.uuid4().
Uuids == {"uuid_1", "uuid_2"}

(***************************************************************************)
(* State.                                                                  *)
(***************************************************************************)
VARIABLES
    condition_order,   \* iteration order of SafetyFilter.medical_conditions
    filter_query,      \* the query given to evaluate_query
    filter_result,     \* <<>> or <<assessment returned by evaluate_query>>
    pc,                \* where ask_question stands
    request,           \* the QueryRequest being handled
    requests_handled,  \* requests received so far
    safety_assessment, \* <<>> or <<the assessment in use>>
    retrieved_chunks,  \* the handler's retrieved_chunks
    retrieval_call,    \* <<>> or <<arguments and backend hits of the retrieval>>
    generated_response, \* <<>> or <<the handler's generated_response>>
    gen_context,       \* <<>> or <<context generate_response was given>>
    response,          \* <<>> or <<the QueryResponse returned>>
    http_status,       \* 0 while handling, then the status returned
    background_tasks,  \* tasks added to BackgroundTasks, not yet run
    trace,             \* the calls made for this request, in order
    embedding_initialized, \* EmbeddingService._initialized
    db_collection,     \* ChromaService.collection is set
    clients,           \* the generator's LLM clients
    logs_collection,   \* MongoLogger has its collections
    interaction_logs,  \* records written to the interaction sink
    safety_incidents,  \* records written to the incident sink
    now,               \* time.time()
    redis_reachable,   \* the shared counter store answers
    redis_client,      \* RateLimiter.redis_client is set
    redis_store,       \* the counters of the shared store, by window key
    in_memory_store,   \* RateLimiter._in_memory_store, by client key
    admitted,          \* by client, the times of its admitted requests
    rejected,          \* requests answered 429
    admission_paths,   \* the branches of is_rate_limited that admitted
    checks,            \* by client, its admission checks in order
    emb_cache,         \* EmbeddingCache._cache, by key
    emb_max_size,      \* EmbeddingCache.max_size
    emb_now,           \* datetime.now()
    last_set,          \* by (model, text), the last set and whether it was
                       \* evicted, expired or cleared since
    cache_call,        \* <<>> or <<the call of the cache just made>>
    provider,          \* EmbeddingService.provider
    embed_call,        \* <<>> or <<the last call of the embedding service>>
    init_pc,           \* by coroutine, where it stands in initialize()
    init_calls,        \* calls of EmbeddingService.initialize so far
    service_instances, \* provider objects create_service has returned
    service_instance,  \* EmbeddingService._service: 0 or the object held
    loaded_instances,  \* provider objects whose initialize() completed
    init_failures,     \* providers whose creation or initialize() raised
    index_backend,     \* the backend VectorDBFactory.create chose
    embedding_dimension, \* settings.embedding_dimension
    collection,        \* the collection in the store of the index
    index_call,        \* <<>> or <<the last call of the index>>
    chunk_content,     \* the document given to the chunking service
    chunk_config,      \* ChunkingService.config
    chunk_category,    \* the category given with the document
    chunk_runs,        \* the calls of chunk_text so far, with what they returned
    limiter_pc,        \* by coroutine, where it stands in get_rate_limiter
    log_requests,      \* requests that dispatched their interaction log
    pending_writes     \* insert_one calls awaited, oldest first

safety_vars == <<condition_order, filter_query, filter_result>>

request_vars ==
    <<pc, request, requests_handled, safety_assessment, retrieved_chunks,
      retrieval_call, generated_response, gen_context, response, http_status, background_tasks, trace>>

component_vars == <<embedding_initialized, db_collection, clients, logs_collection>>

sink_vars == <<interaction_logs, safety_incidents>>

ask_vars == <<request_vars, component_vars, sink_vars>>

rate_vars ==
    <<now, redis_reachable, redis_client, redis_store, in_memory_store,
      admitted, rejected, admission_paths, requests_limit, checks>>

cache_vars == <<emb_cache, emb_max_size, emb_now, last_set, cache_call>>

service_vars == <<provider, embed_call>>

init_vars ==
    <<init_pc, init_calls, service_instances, service_instance,
      loaded_instances, init_failures>>

index_vars == <<index_backend, embedding_dimension, collection, index_call>>

chunk_vars == <<chunk_content, chunk_config, chunk_category, chunk_runs>>

conc_vars == <<limiter_pc, log_requests, pending_writes>>

infra_vars == <<init_vars, index_vars, chunk_vars, conc_vars>>

vars == <<safety_vars, ask_vars, rate_vars, cache_vars, service_vars, infra_vars>>

\* The embedding service as constructed: no provider object yet.
InitIdle ==
    /\ init_pc = [c \in Coroutines |-> <<>>]
    /\ init_calls = 0
    /\ service_instances = 0
    /\ service_instance = 0
    /\ loaded_instances = {}
    /\ init_failures = {}

\* The Chroma index as configured by default, its store still empty.
IndexIdle ==
    /\ index_backend = "chroma"
    /\ embedding_dimension = ProviderDimension("nvidia")
    /\ collection = NoCollection
    /\ index_call = <<>>

\* The chunking service with no document.
ChunkIdle ==
    /\ chunk_content = <<>>
    /\ chunk_config =
          [chunk_size |-> MaxChunkTokens, chunk_overlap |-> MaxOverlap,
           min_chunk_size |-> MaxChunkTokens, max_chunk_size |-> MaxChunkTokens]
    /\ chunk_category = "WELLNESS"
    /\ chunk_runs = <<>>

\* No request is inside get_rate_limiter, none has dispatched a log write.
ConcIdle ==
    /\ limiter_pc = [c \in Coroutines |-> <<>>]
    /\ log_requests = 0
    /\ pending_writes = <<>>

InfraIdle == InitIdle /\ IndexIdle /\ ChunkIdle /\ ConcIdle

\* The embedding cache as constructed, at time 0.
CacheIdle ==
    /\ emb_cache = EmptyCache
    /\ emb_now = 0
    /\ last_set = [p \in CachePairs |-> <<>>]
    /\ cache_call = <<>>
    /\ embed_call = <<>>

\* The rate limiter as constructed, at time 0.
RateIdle ==
    /\ now = 0
    /\ redis_client = FALSE
    /\ redis_store = [k \in WindowKeys |-> [count |-> 0, expires_at |-> 0]]
    /\ in_memory_store = [c \in ClientIds |-> <<>>]
    /\ admitted = [c \in ClientIds |-> <<>>]
    /\ rejected = 0
    /\ admission_paths = {}
    /\ checks = [c \in ClientIds |-> <<>>]

\* The handler at rest, as constructed by the dependencies.
AskIdle ==
    /\ pc = "idle"
    /\ request = [query |-> <<>>, max_chunks |-> <<>>, min_similarity |-> <<>>]
    /\ requests_handled = 0
    /\ safety_assessment = <<>>
    /\ retrieved_chunks = <<>>
    /\ retrieval_call = <<>>
    /\ generated_response = <<>>
    /\ gen_context = <<>>
    /\ response = <<>>
    /\ http_status = 0
    /\ background_tasks = <<>>
    /\ trace = <<>>
    /\ embedding_initialized = FALSE
    /\ db_collection = FALSE
    /\ interaction_logs = <<>>
    /\ safety_incidents = <<>>

(***************************************************************************)
(* The safety filter applied to every bounded query.                       *)
(***************************************************************************)
InitSafety ==
    /\ condition_order \in ConditionOrders
    /\ filter_query \in Queries
    /\ filter_result = <<>>
    /\ AskIdle
    /\ clients = GeneratorClients(FALSE, FALSE, FALSE, FALSE)
    /\ logs_collection = FALSE
    /\ RateIdle
    /\ redis_reachable = TRUE
    /\ requests_limit = MaxLimit
    /\ CacheIdle
    /\ InfraIdle
    /\ emb_max_size = MaxCacheSize
    /\ provider = "sentence_transformer"

\* One call of evaluate_query on the query at hand.
EvaluateQuery ==
    /\ filter_result = <<>>
    /\ filter_result' = <<evaluate_query(filter_query, condition_order)>>
    /\ UNCHANGED <<condition_order, filter_query, ask_vars, rate_vars, cache_vars, service_vars, infra_vars>>

NextSafety == EvaluateQuery

SpecSafety == InitSafety /\ [][NextSafety]_vars

(***************************************************************************)
(* The /ask handler, one request after the other.                          *)
(***************************************************************************)
InitAsk ==
    /\ condition_order = SourceOrder
    /\ filter_query = <<>>
    /\ filter_result = <<>>
    /\ AskIdle
    /\ clients \in {GeneratorClients(n, TRUE, o, TRUE) : n, o \in BOOLEAN}
    /\ logs_collection \in BOOLEAN
    /\ RateIdle
    /\ redis_reachable = TRUE
    /\ requests_limit = MaxLimit
    /\ CacheIdle
    /\ InfraIdle
    /\ emb_max_size = MaxCacheSize
    /\ provider = "sentence_transformer"

\* A request that passed admission and validation enters ask_question.
Receive ==
    /\ pc = "idle"
    /\ requests_handled < MaxRequests
    /\ \E r \in Requests : request' = r
    /\ requests_handled' = requests_handled + 1
    /\ pc' = "safety"
    /\ safety_assessment' = <<>>
    /\ retrieved_chunks' = <<>>
    /\ retrieval_call' = <<>>
    /\ generated_response' = <<>>
    /\ gen_context' = <<>>
    /\ response' = <<>>
    /\ http_status' = 0
    /\ background_tasks' = <<>>
    /\ trace' = <<>>
    /\ UNCHANGED <<safety_vars, component_vars, sink_vars, rate_vars, cache_vars, service_vars, infra_vars>>

\* Mutant of SafetyCheck: no try/except around the filter, so that its
\* error leaves the handler.
SafetyCheckUncaught ==
    /\ pc = "safety"
    /\ \E raises \in BOOLEAN :
        /\ safety_assessment' =
              IF raises THEN <<>>
              ELSE <<evaluate_query(request.query, condition_order)>>
        /\ trace' = Append(trace, [op |-> "evaluate_query", ok |-> ~raises])
        /\ pc' = IF raises THEN "failed" ELSE "gate"
        /\ http_status' = IF raises THEN 500 ELSE http_status
    /\ UNCHANGED <<request, requests_handled, retrieval_call, retrieved_chunks, generated_response,
                   gen_context, response, background_tasks,
                   safety_vars, component_vars, sink_vars, rate_vars, cache_vars, service_vars, infra_vars>>

\* 1. Safety check: the filter's assessment, or the permissive one when the
\* filter raises.
SafetyCheck ==
    /\ pc = "safety"
    /\ \E raises \in BOOLEAN :
        /\ safety_assessment' =
              <<IF raises THEN PermissiveAssessment
                ELSE evaluate_query(request.query, condition_order)>>
        /\ trace' = Append(trace, [op |-> "evaluate_query", ok |-> ~raises])
    /\ pc' = "gate"
    /\ UNCHANGED <<request, requests_handled, retrieval_call, retrieved_chunks, generated_response,
                   gen_context, response, http_status, background_tasks,
                   safety_vars, component_vars, sink_vars, rate_vars, cache_vars, service_vars, infra_vars>>

\* Mutant of IsBlocked: the gate looks at the risk level HIGH instead of
\* allow_response.
IsBlockedWhenHigh(assessment) == assessment.risk_level = "HIGH"

\* `if not safety_assessment.allow_response`
IsBlocked(assessment) == ~assessment.allow_response

\* The blocked branch: dispatch the incident log, return the refusal.
Blocked ==
    /\ pc = "gate"
    /\ IsBlocked(safety_assessment[1])
    /\ background_tasks' =
          Append(background_tasks,
                 [task |-> "log_safety_incident", id |-> requests_handled,
                  incident_type |-> IncidentType(safety_assessment[1])])
    /\ trace' = Append(trace, [op |-> "add_task.log_safety_incident", ok |-> TRUE])
    /\ response' =
          <<[response |-> BlockedResponse(safety_assessment[1]),
             retrieval_results |-> <<>>,
             safety_assessment |-> safety_assessment[1]]>>
    /\ http_status' = 200
    /\ pc' = "responded"
    /\ UNCHANGED <<request, requests_handled, retrieval_call, safety_assessment, retrieved_chunks,
                   generated_response, gen_context,
                   safety_vars, component_vars, sink_vars, rate_vars, cache_vars, service_vars, infra_vars>>

\* Lines 96-114 of ask_question: what the retrieval step does once it runs.
RetrievalWork ==
    /\ \E env \in RetrievalEnvs :
       \E hits \in SearchResults(OrDefault(request.max_chunks, DefaultMaxChunks)) :
          LET init == EngineInitialize(embedding_initialized, db_collection, env)
              got == RetrieveRelevantChunks(
                         init.initialized, init.collection, env, hits,
                         OrDefault(request.min_similarity, DefaultMinSimilarity))
          IN  /\ retrieved_chunks' = IF got.raised THEN <<>> ELSE got.results
              /\ retrieval_call' =
                    <<[max_results |-> OrDefault(request.max_chunks, DefaultMaxChunks),
                       min_similarity |->
                           OrDefault(request.min_similarity, DefaultMinSimilarity),
                       searched |-> ~got.raised /\ ~got.failed,
                       search_results |->
                           IF ~got.raised /\ ~got.failed THEN hits ELSE <<>>]>>
              /\ embedding_initialized' = got.initialized
              /\ db_collection' = got.collection
              /\ trace' = trace \o <<[op |-> "engine.initialize", ok |-> ~init.raised]>>
                                \o init.calls
                                \o <<[op |-> "retrieve_relevant_chunks",
                                      ok |-> ~got.failed]>>
                                \o got.calls
    /\ UNCHANGED <<request, requests_handled, safety_assessment, generated_response,
                   gen_context, response, http_status, background_tasks,
                   safety_vars, clients, logs_collection, sink_vars, rate_vars, cache_vars, service_vars, infra_vars>>

\* Mutant of Retrieval: the retrieval is started together with the safety
\* check instead of after it.
RetrievalUngated ==
    /\ \/ pc = "safety" /\ trace = <<>>
       \/ pc = "gate" /\ ~IsBlocked(safety_assessment[1])
    /\ RetrievalWork
    /\ pc' = IF pc = "safety" THEN "safety" ELSE "generation"

\* 2. Retrieval: initialize the engine (errors only logged), retrieve; an
\* error of the retrieval leaves retrieved_chunks empty.
Retrieval ==
    /\ pc = "gate"
    /\ ~IsBlocked(safety_assessment[1])
    /\ RetrievalWork
    /\ pc' = "generation"

\* Lines 117-139 of ask_question: what the generation step does.
GenerationWork ==
    /\ \E env \in GenerationEnvs :
          LET reply == GenerateResponse(retrieved_chunks, safety_assessment[1],
                                        clients, env)
          IN  /\ generated_response' =
                    <<IF env.format THEN reply ELSE GenerationErrorResponse>>
              /\ trace' = trace
                    \o (IF clients.nvidia_client
                        THEN <<[op |-> "generator.initialize", ok |-> env.generator_init]>>
                        ELSE <<>>)
                    \o <<[op |-> "generate_response", ok |-> env.format]>>
                    \o (IF env.format
                        THEN CallLLM(retrieved_chunks, clients, env).calls
                        ELSE <<>>)
    /\ gen_context' = <<retrieved_chunks>>
    /\ UNCHANGED <<request, requests_handled, retrieval_call, safety_assessment, retrieved_chunks,
                   response, http_status, background_tasks,
                   safety_vars, component_vars, sink_vars, rate_vars, cache_vars, service_vars, infra_vars>>

\* Mutant of Generation: with nothing retrieved the handler answers by
\* itself and does not call the generator.
GenerationSkipsEmptyContext ==
    /\ pc = "generation"
    /\ IF retrieved_chunks = <<>>
       THEN /\ generated_response' =
                  <<[content |-> "mock_no_information", sources |-> <<>>,
                     confidence |-> 0, safety_notices |-> <<>>]>>
            /\ UNCHANGED <<request, requests_handled, retrieval_call, safety_assessment,
                           retrieved_chunks, gen_context, trace, response,
                           http_status, background_tasks,
                           safety_vars, component_vars, sink_vars, rate_vars, cache_vars, service_vars, infra_vars>>
       ELSE GenerationWork
    /\ pc' = "log"

\* 3. Generation: initialize the generator (errors only logged), generate;
\* an error of the generation is replaced by the apology.
Generation ==
    /\ pc = "generation"
    /\ GenerationWork
    /\ pc' = "log"

\* Mutant of LogAndRespond: the interaction is logged only when the
\* generation did not fall back to the error apology.
LogAndRespondSkipsOnError ==
    /\ pc = "log"
    /\ LET logged == generated_response[1].content # "apology_error"
       IN  /\ background_tasks' =
                 IF logged
                 THEN Append(background_tasks,
                             [task |-> "log_interaction", id |-> requests_handled,
                              incident_type |-> "none"])
                 ELSE background_tasks
           /\ trace' =
                 IF logged
                 THEN Append(trace, [op |-> "add_task.log_interaction", ok |-> TRUE])
                 ELSE trace
    /\ response' =
          <<[response |-> generated_response[1],
             retrieval_results |-> retrieved_chunks,
             safety_assessment |-> safety_assessment[1]]>>
    /\ http_status' = 200
    /\ pc' = "responded"
    /\ UNCHANGED <<request, requests_handled, retrieval_call, safety_assessment, retrieved_chunks,
                   generated_response, gen_context,
                   safety_vars, component_vars, sink_vars, rate_vars, cache_vars, service_vars, infra_vars>>

\* 4. Log interaction and return the QueryResponse.
LogAndRespond ==
    /\ pc = "log"
    /\ background_tasks' =
          Append(background_tasks,
                 [task |-> "log_interaction", id |-> requests_handled,
                  incident_type |-> "none"])
    /\ trace' = Append(trace, [op |-> "add_task.log_interaction", ok |-> TRUE])
    /\ response' =
          <<[response |-> generated_response[1],
             retrieval_results |-> retrieved_chunks,
             safety_assessment |-> safety_assessment[1]]>>
    /\ http_status' = 200
    /\ pc' = "responded"
    /\ UNCHANGED <<request, requests_handled, retrieval_call, safety_assessment, retrieved_chunks,
                   generated_response, gen_context,
                   safety_vars, component_vars, sink_vars, rate_vars, cache_vars, service_vars, infra_vars>>

\* MongoLogger.log_interaction / log_safety_incident, run by BackgroundTasks
\* after the response went out: nothing without a collection, and a failing
\* insert is only logged.
RunBackgroundTask ==
    /\ pc = "responded"
    /\ background_tasks # <<>>
    /\ \E insert_ok \in BOOLEAN :
          LET task == Head(background_tasks)
              written == logs_collection /\ insert_ok
          IN  /\ interaction_logs' =
                    IF written /\ task.task = "log_interaction"
                    THEN Append(interaction_logs, task.id)
                    ELSE interaction_logs
              /\ safety_incidents' =
                    IF written /\ task.task = "log_safety_incident"
                    THEN Append(safety_incidents, task.id)
                    ELSE safety_incidents
              /\ trace' = Append(trace, [op |-> task.task, ok |-> written])
    /\ background_tasks' = Tail(background_tasks)
    /\ pc' = IF Tail(background_tasks) = <<>> THEN "done" ELSE "responded"
    /\ UNCHANGED <<request, requests_handled, retrieval_call, safety_assessment, retrieved_chunks,
                   generated_response, gen_context, response, http_status,
                   safety_vars, component_vars, rate_vars, cache_vars, service_vars, infra_vars>>

\* The request is over: its locals are gone, the components stay.
Finish ==
    /\ pc = "done"
    /\ pc' = "idle"
    /\ request' = [query |-> <<>>, max_chunks |-> <<>>, min_similarity |-> <<>>]
    /\ safety_assessment' = <<>>
    /\ retrieved_chunks' = <<>>
    /\ retrieval_call' = <<>>
    /\ generated_response' = <<>>
    /\ gen_context' = <<>>
    /\ response' = <<>>
    /\ http_status' = 0
    /\ trace' = <<>>
    /\ UNCHANGED <<requests_handled, background_tasks,
                   safety_vars, component_vars, sink_vars, rate_vars, cache_vars, service_vars, infra_vars>>

NextAsk ==
    \/ Receive
    \/ SafetyCheck
    \/ Blocked
    \/ Retrieval
    \/ Generation
    \/ LogAndRespond
    \/ RunBackgroundTask
    \/ Finish

SpecAsk == InitAsk /\ [][NextAsk]_vars

(***************************************************************************)
(* The rate limiter under requests of several clients over time.           *)
(***************************************************************************)
InitRate ==
    /\ condition_order = SourceOrder
    /\ filter_query = <<>>
    /\ filter_result = <<>>
    /\ AskIdle
    /\ clients = GeneratorClients(FALSE, FALSE, FALSE, FALSE)
    /\ logs_collection = FALSE
    /\ RateIdle
    /\ redis_reachable \in BOOLEAN
    /\ requests_limit \in 0..MaxLimit
    /\ CacheIdle
    /\ InfraIdle
    /\ emb_max_size = MaxCacheSize
    /\ provider = "sentence_transformer"

\* RateLimiter.initialize, called by get_rate_limiter while there is no
\* client: the client stays only if the store answers the ping.
Initialize(client, reachable) == IF client THEN TRUE ELSE reachable

\* get_rate_limiter for one request of client `key`: lazy initialization,
\* is_rate_limited, then 429 or admission.
AdmissionCheck ==
    /\ rejected + Len(admitted["10.0.0.1"]) + Len(admitted["unknown"])
          < MaxAdmissionChecks
    /\ \E key \in ClientIds :
          LET client == Initialize(redis_client, redis_reachable)
              memory == InMemoryCheck(in_memory_store[key], now)
              shared == RedisCheck(redis_store, WindowKey(key, now), now,
                                   redis_reachable)
              limited == IF ~client THEN memory.limited ELSE shared.limited
              path ==
                  IF ~client THEN "in_memory"
                  ELSE IF redis_reachable THEN "redis" ELSE "fail_open"
          IN  /\ redis_client' = client
              /\ in_memory_store' =
                    IF ~client
                    THEN [in_memory_store EXCEPT ![key] = memory.entry]
                    ELSE in_memory_store
              /\ redis_store' = IF client THEN shared.store ELSE redis_store
              /\ admitted' =
                    IF limited THEN admitted
                    ELSE [admitted EXCEPT ![key] = Append(@, now)]
              /\ rejected' = IF limited THEN rejected + 1 ELSE rejected
              /\ admission_paths' =
                    IF limited THEN admission_paths ELSE admission_paths \cup {path}
              /\ checks' =
                    [checks EXCEPT ![key] =
                        Append(@, [time |-> now, path |-> path,
                                   limited |-> limited])]
    /\ UNCHANGED <<now, redis_reachable, requests_limit, safety_vars, ask_vars, cache_vars, service_vars, infra_vars>>

\* One second passes; expired keys leave the shared store.
Tick ==
    /\ now < MaxTime
    /\ now' = now + 1
    /\ redis_store' = RedisExpire(redis_store, now + 1)
    /\ UNCHANGED <<redis_reachable, redis_client, in_memory_store, admitted,
                   rejected, admission_paths, requests_limit, checks,
                   safety_vars, ask_vars, cache_vars, service_vars, infra_vars>>

\* The shared store goes down or comes back.
StoreFlips ==
    /\ redis_reachable' = ~redis_reachable
    /\ UNCHANGED <<now, redis_client, redis_store, in_memory_store, admitted,
                   rejected, admission_paths, requests_limit, checks,
                   safety_vars, ask_vars, cache_vars, service_vars, infra_vars>>

NextRate ==
    \/ AdmissionCheck
    \/ Tick
    \/ StoreFlips

SpecRate == InitRate /\ [][NextRate]_vars

(***************************************************************************)
(* The embedding cache under set, get and clear of its callers over time.  *)
(***************************************************************************)
InitCache ==
    /\ condition_order = SourceOrder
    /\ filter_query = <<>>
    /\ filter_result = <<>>
    /\ AskIdle
    /\ clients = GeneratorClients(FALSE, FALSE, FALSE, FALSE)
    /\ logs_collection = FALSE
    /\ RateIdle
    /\ redis_reachable = TRUE
    /\ requests_limit = MaxLimit
    /\ CacheIdle
    /\ InfraIdle
    /\ emb_max_size \in 0..MaxCacheSize
    /\ provider = "sentence_transformer"

\* The record of sets after the keys `removed` left the cache.
MarkGone(sets, removed) ==
    [p \in CachePairs |->
        IF sets[p] # <<>> /\ GenerateKey(p[2], p[1]) \in removed
        THEN <<[sets[p][1] EXCEPT !.live = FALSE]>>
        ELSE sets[p]]

\* cache.set(text, model_name, embedding)
Set ==
    /\ \E pair \in CachePairs : \E embedding \in Vectors :
       \E out \in CacheSet(emb_cache, pair[2], pair[1], embedding, emb_now,
                           emb_max_size) :
          /\ emb_cache' = out.cache
          /\ last_set' =
                IF out.raised THEN last_set
                ELSE [MarkGone(last_set, out.removed) EXCEPT ![pair] =
                         <<[embedding |-> embedding, time |-> emb_now,
                            live |-> TRUE]>>]
          /\ cache_call' =
                <<[op |-> "set", pair |-> pair, value |-> <<>>,
                   raised |-> out.raised, removed |-> out.removed]>>
    /\ UNCHANGED <<emb_max_size, emb_now, safety_vars, ask_vars, rate_vars, service_vars, infra_vars>>

\* cache.get(text, model_name)
Get ==
    /\ \E pair \in CachePairs :
          LET out == CacheGet(emb_cache, pair[2], pair[1], emb_now)
          IN  /\ emb_cache' = out.cache
              /\ last_set' = MarkGone(last_set, out.removed)
              /\ cache_call' =
                    <<[op |-> "get", pair |-> pair, value |-> out.value,
                       raised |-> FALSE, removed |-> out.removed]>>
    /\ UNCHANGED <<emb_max_size, emb_now, safety_vars, ask_vars, rate_vars, service_vars, infra_vars>>

\* cache.clear()
Clear ==
    /\ emb_cache' = CacheClear(emb_cache)
    /\ last_set' = MarkGone(last_set, CacheKeys)
    /\ cache_call' =
          <<[op |-> "clear", pair |-> <<>>, value |-> <<>>, raised |-> FALSE,
             removed |-> StoredKeys(emb_cache)]>>
    /\ UNCHANGED <<emb_max_size, emb_now, safety_vars, ask_vars, rate_vars, service_vars, infra_vars>>

\* One hour passes.
CacheTick ==
    /\ emb_now < MaxCacheTime
    /\ emb_now' = emb_now + 1
    /\ cache_call' = <<>>
    /\ UNCHANGED <<emb_cache, emb_max_size, last_set,
                   safety_vars, ask_vars, rate_vars, service_vars, infra_vars>>

NextCache ==
    \/ Set
    \/ Get
    \/ Clear
    \/ CacheTick

SpecCache == InitCache /\ [][NextCache]_vars

(***************************************************************************)
(* The embedding service under batches of texts (ingestion) and queries of *)
(* requests (retrieval engine) over time.                                  *)
(***************************************************************************)
InitEmbed ==
    /\ condition_order = SourceOrder
    /\ filter_query = <<>>
    /\ filter_result = <<>>
    /\ AskIdle
    /\ clients = GeneratorClients(FALSE, FALSE, FALSE, FALSE)
    /\ logs_collection = FALSE
    /\ RateIdle
    /\ redis_reachable = TRUE
    /\ requests_limit = MaxLimit
    /\ CacheIdle
    /\ InfraIdle
    /\ emb_max_size \in 1..MaxCacheSize
    /\ provider \in Providers

\* The record of a call that raised before it reached the cache.
RaisedEarly(op, texts, use_cache) ==
    [op |-> op, texts |-> texts, use_cache |-> use_cache,
     cache_before |-> emb_cache, time |-> emb_now, api_ok |-> TRUE,
     raised |-> TRUE, embeddings |-> <<>>, provider_called |-> FALSE,
     provider_texts |-> <<>>, provider_returned |-> <<>>]

\* One call of the embedding service, `op` being embed_texts or
\* embed_query: the service initializes itself when it has to (a failing
\* initialization raises EmbeddingError), then the call runs.
ServiceCall(op, texts, use_cache) ==
    \E init_ok, api_ok \in BOOLEAN :
        IF ~embedding_initialized /\ ~init_ok
        THEN /\ embed_call' = <<RaisedEarly(op, texts, use_cache)>>
             /\ UNCHANGED <<emb_cache, embedding_initialized>>
        ELSE \E out \in
                 IF op = "embed_texts"
                 THEN EmbedTexts(emb_cache, texts, use_cache, provider, api_ok,
                                 emb_now, emb_max_size)
                 ELSE EmbedQuery(emb_cache, texts[1], use_cache, provider,
                                 api_ok, emb_now, emb_max_size) :
                /\ embedding_initialized' = TRUE
                /\ emb_cache' = out.cache
                /\ embed_call' =
                      <<[op |-> op, texts |-> texts, use_cache |-> use_cache,
                         cache_before |-> emb_cache, time |-> emb_now,
                         api_ok |-> api_ok, raised |-> out.raised,
                         embeddings |-> out.embeddings,
                         provider_called |-> out.provider_called,
                         provider_texts |-> out.provider_texts,
                         provider_returned |-> out.provider_returned]>>

\* embedding_service.embed_texts(texts), as the ingestion calls it.
EmbedTextsCall ==
    /\ \E texts \in SeqsUpTo(CacheTexts, MaxTexts) : \E use_cache \in BOOLEAN :
          ServiceCall("embed_texts", texts, use_cache)
    /\ UNCHANGED <<emb_max_size, emb_now, last_set, cache_call, provider,
                   safety_vars, request_vars, db_collection, clients,
                   logs_collection, sink_vars, rate_vars, infra_vars>>

\* Lines 54-61 of retrieve_relevant_chunks: the engine initializes the
\* embedding service when it has to and embeds the query of the request.
EngineEmbedQuery ==
    /\ \E query \in CacheTexts \cup {<<>>} :
          ServiceCall("embed_query", <<query>>, TRUE)
    /\ UNCHANGED <<emb_max_size, emb_now, last_set, cache_call, provider,
                   safety_vars, request_vars, db_collection, clients,
                   logs_collection, sink_vars, rate_vars, infra_vars>>

\* One hour passes.
EmbedTick ==
    /\ emb_now < MaxCacheTime
    /\ emb_now' = emb_now + 1
    /\ UNCHANGED <<emb_cache, emb_max_size, last_set, cache_call,
                   service_vars, safety_vars, ask_vars, rate_vars, infra_vars>>

NextEmbed ==
    \/ EmbedTextsCall
    \/ EngineEmbedQuery
    \/ EmbedTick

SpecEmbed == InitEmbed /\ [][NextEmbed]_vars

(***************************************************************************)
(* Lazy initialization of the embedding service by the coroutines of       *)
(* concurrent requests.                                                    *)
(***************************************************************************)
InitInit ==
    /\ condition_order = SourceOrder
    /\ filter_query = <<>>
    /\ filter_result = <<>>
    /\ AskIdle
    /\ clients = GeneratorClients(FALSE, FALSE, FALSE, FALSE)
    /\ logs_collection = FALSE
    /\ RateIdle
    /\ redis_reachable = TRUE
    /\ requests_limit = MaxLimit
    /\ CacheIdle
    /\ emb_max_size = MaxCacheSize
    /\ \E nvidia_embedding_api_key, service_constructs \in BOOLEAN :
          provider = GetEmbeddingService(nvidia_embedding_api_key,
                                         service_constructs)
    /\ InitIdle
    /\ IndexIdle
    /\ ChunkIdle
    /\ ConcIdle

\* EmbeddingService.initialize up to its first suspension: return at once
\* when _initialized is set; else create the provider object, keep it in
\* _service and initialize it.  A provider that does not suspend is
\* initialized within the step.
InitializeBegin(c) ==
    /\ init_pc[c] = <<>>
    /\ init_calls < MaxInitCalls
    /\ init_calls' = init_calls + 1
    /\ IF embedding_initialized
       THEN UNCHANGED <<init_pc, service_instances, service_instance,
                        loaded_instances, init_failures,
                        embedding_initialized>>
       ELSE \E creates \in BOOLEAN :
              IF ~creates
              THEN /\ init_failures' = init_failures \cup {provider}
                   /\ UNCHANGED <<init_pc, service_instances,
                                  service_instance, loaded_instances,
                                  embedding_initialized>>
              ELSE /\ service_instances' = service_instances + 1
                   /\ service_instance' = service_instances + 1
                   /\ IF InitializeSuspends(provider)
                      THEN /\ init_pc' =
                                [init_pc EXCEPT ![c] = <<service_instances + 1>>]
                           /\ UNCHANGED <<loaded_instances, init_failures,
                                          embedding_initialized>>
                      ELSE /\ \E initializes \in BOOLEAN :
                                IF initializes
                                THEN /\ loaded_instances' =
                                          loaded_instances
                                             \cup {service_instances + 1}
                                     /\ embedding_initialized' = TRUE
                                     /\ UNCHANGED init_failures
                                ELSE /\ init_failures' =
                                          init_failures \cup {provider}
                                     /\ UNCHANGED <<loaded_instances,
                                                    embedding_initialized>>
                           /\ UNCHANGED init_pc
    /\ UNCHANGED <<provider, embed_call, safety_vars, request_vars,
                   db_collection, clients, logs_collection, sink_vars,
                   rate_vars, cache_vars, index_vars, chunk_vars,
                   conc_vars>>

\* The rest of EmbeddingService.initialize once the awaited provider
\* initialize() is over: _initialized is set, or EmbeddingError is raised.
InitializeResume(c) ==
    /\ init_pc[c] # <<>>
    /\ init_pc' = [init_pc EXCEPT ![c] = <<>>]
    /\ \E initializes \in BOOLEAN :
          IF initializes
          THEN /\ loaded_instances' = loaded_instances \cup {init_pc[c][1]}
               /\ embedding_initialized' = TRUE
               /\ UNCHANGED init_failures
          ELSE /\ init_failures' = init_failures \cup {provider}
               /\ UNCHANGED <<loaded_instances, embedding_initialized>>
    /\ UNCHANGED <<init_calls, service_instances, service_instance, provider,
                   embed_call, safety_vars, request_vars, db_collection,
                   clients, logs_collection, sink_vars, rate_vars, cache_vars,
                   index_vars, chunk_vars,
                   conc_vars>>

NextInit ==
    \/ \E c \in Coroutines : InitializeBegin(c)
    \/ \E c \in Coroutines : InitializeResume(c)

SpecInit == InitInit /\ [][NextInit]_vars

(***************************************************************************)
(* The vector index under initialize, upsert (ingestion) and search        *)
(* (retrieval engine) with vectors of either provider.                     *)
(***************************************************************************)
InitIndex ==
    /\ condition_order = SourceOrder
    /\ filter_query = <<>>
    /\ filter_result = <<>>
    /\ AskIdle
    /\ clients = GeneratorClients(FALSE, FALSE, FALSE, FALSE)
    /\ logs_collection = FALSE
    /\ RateIdle
    /\ redis_reachable = TRUE
    /\ requests_limit = MaxLimit
    /\ CacheIdle
    /\ emb_max_size = MaxCacheSize
    /\ provider = "sentence_transformer"
    /\ InitIdle
    /\ index_backend \in Backends
    /\ embedding_dimension \in Dimensions
    /\ collection \in PersistedCollections(index_backend)
    /\ index_call = <<>>
    /\ ChunkIdle
    /\ ConcIdle

\* The record of a call of the index.
IndexCallRecord(op, dim, before, handle_before, raised, results, recreated) ==
    [op |-> op, dim |-> dim, before |-> before,
     handle_before |-> handle_before, raised |-> raised,
     results |-> results, recreated |-> recreated]

\* vector_db.initialize(), as engine.initialize calls it for every request
\* and the ingestion at its start.
VectorDBInitialize ==
    /\ \E connects \in BOOLEAN :
          LET out == IndexInitialize(index_backend, collection,
                                     embedding_dimension, connects)
          IN  /\ collection' = out.collection
              /\ db_collection' = IF out.raised THEN db_collection ELSE TRUE
              /\ index_call' =
                    <<IndexCallRecord("initialize", embedding_dimension,
                                      collection, db_collection, out.raised,
                                      {}, out.recreated)>>
    /\ UNCHANGED <<index_backend, embedding_dimension, safety_vars,
                   request_vars, embedding_initialized, clients,
                   logs_collection, sink_vars, rate_vars, cache_vars,
                   service_vars, init_vars, chunk_vars,
                   conc_vars>>

\* The lazy initialization at the head of search and upsert_chunks: a
\* failure raises out of the call, which is then recorded as the failed
\* initialize.
EnsureInitialized(connects) ==
    IF db_collection
    THEN [collection |-> collection, handle |-> TRUE, raised |-> FALSE,
          recreated |-> FALSE]
    ELSE IndexInitialize(index_backend, collection, embedding_dimension,
                         connects)

\* vector_db.search(query_embedding, k) with a query vector of dimension dim.
VectorDBSearch ==
    /\ \E dim \in Dimensions : \E connects \in BOOLEAN :
          LET ready == EnsureInitialized(connects)
              out == IndexSearch(index_backend, ready.collection, dim)
          IN  IF ready.raised
              THEN /\ index_call' =
                         <<IndexCallRecord("initialize", embedding_dimension,
                                           collection, db_collection, TRUE,
                                           {}, FALSE)>>
                   /\ UNCHANGED <<collection, db_collection>>
              ELSE /\ collection' = out.collection
                   /\ db_collection' = TRUE
                   /\ index_call' =
                         <<IndexCallRecord("search", dim, ready.collection,
                                           db_collection, out.raised,
                                           out.results,
                                           out.recreated \/ ready.recreated)>>
    /\ UNCHANGED <<index_backend, embedding_dimension, safety_vars,
                   request_vars, embedding_initialized, clients,
                   logs_collection, sink_vars, rate_vars, cache_vars,
                   service_vars, init_vars, chunk_vars,
                   conc_vars>>

\* vector_db.upsert_chunks(chunks, embeddings) with vectors of dimension dim.
VectorDBUpsert ==
    /\ \E dim \in Dimensions : \E ids \in SUBSET ChunkIds \ {{}} :
       \E connects \in BOOLEAN :
          LET ready == EnsureInitialized(connects)
              out == IndexUpsert(index_backend, ready.collection, ids, dim)
          IN  IF ready.raised
              THEN /\ index_call' =
                         <<IndexCallRecord("initialize", embedding_dimension,
                                           collection, db_collection, TRUE,
                                           {}, FALSE)>>
                   /\ UNCHANGED <<collection, db_collection>>
              ELSE /\ collection' = out.collection
                   /\ db_collection' = TRUE
                   /\ index_call' =
                         <<IndexCallRecord("upsert", dim, ready.collection,
                                           db_collection, out.raised, {},
                                           ready.recreated)>>
    /\ UNCHANGED <<index_backend, embedding_dimension, safety_vars,
                   request_vars, embedding_initialized, clients,
                   logs_collection, sink_vars, rate_vars, cache_vars,
                   service_vars, init_vars, chunk_vars,
                   conc_vars>>

NextIndex ==
    \/ VectorDBInitialize
    \/ VectorDBSearch
    \/ VectorDBUpsert

SpecIndex == InitIndex /\ [][NextIndex]_vars

(***************************************************************************)
(* The chunking service called on one document, once or again.             *)
(***************************************************************************)
ContentCategories == {"YOGA", "WELLNESS"}

InitChunk ==
    /\ condition_order = SourceOrder
    /\ filter_query = <<>>
    /\ filter_result = <<>>
    /\ AskIdle
    /\ clients = GeneratorClients(FALSE, FALSE, FALSE, FALSE)
    /\ logs_collection = FALSE
    /\ RateIdle
    /\ redis_reachable = TRUE
    /\ requests_limit = MaxLimit
    /\ CacheIdle
    /\ emb_max_size = MaxCacheSize
    /\ provider = "sentence_transformer"
    /\ InitIdle
    /\ IndexIdle
    /\ ConcIdle
    /\ chunk_content \in Documents
    /\ chunk_config \in ChunkingConfigs
    /\ chunk_category \in ContentCategories
    /\ chunk_runs = <<>>

\* service.chunk_text(content, source, document_id?, category)
ChunkTextCall ==
    /\ Len(chunk_runs) < MaxRuns
    /\ \E document_id \in {<<>>} \cup {<<d>> : d \in DocumentIds} :
       \E uuid \in Uuids :
          LET out == ChunkText(chunk_content, document_id, uuid,
                               chunk_category, chunk_config)
          IN  chunk_runs' =
                  Append(chunk_runs,
                         [given |-> document_id,
                          document_id |-> out.document_id,
                          emitted |-> out.emitted,
                          chunks |-> out.chunks])
    /\ UNCHANGED <<chunk_content, chunk_config, chunk_category, safety_vars,
                   ask_vars, rate_vars, cache_vars, service_vars, init_vars,
                   index_vars, conc_vars>>

NextChunk == ChunkTextCall

SpecChunk == InitChunk /\ [][NextChunk]_vars

(***************************************************************************)
(* get_rate_limiter under concurrent requests: the coroutine that starts   *)
(* the connection is suspended at `await self.redis_client.ping()` while   *)
(* the coroutines of other requests run.  The store is up or down for the  *)
(* whole behaviour.                                                        *)
(***************************************************************************)
InitConnect ==
    /\ condition_order = SourceOrder
    /\ filter_query = <<>>
    /\ filter_result = <<>>
    /\ AskIdle
    /\ clients = GeneratorClients(FALSE, FALSE, FALSE, FALSE)
    /\ logs_collection = FALSE
    /\ RateIdle
    /\ redis_reachable \in BOOLEAN
    /\ requests_limit \in 0..MaxLimit
    /\ CacheIdle
    /\ InfraIdle
    /\ emb_max_size = MaxCacheSize
    /\ provider = "sentence_transformer"

\* is_rate_limited(key) with the client the limiter holds when it is
\* called, and the 429 or the admission that follows in get_rate_limiter.
IsRateLimited(key, client) ==
    LET memory == InMemoryCheck(in_memory_store[key], now)
        shared == RedisCheck(redis_store, WindowKey(key, now), now,
                             redis_reachable)
        limited == IF ~client THEN memory.limited ELSE shared.limited
        path ==
            IF ~client THEN "in_memory"
            ELSE IF redis_reachable THEN "redis" ELSE "fail_open"
    IN  /\ in_memory_store' =
              IF ~client
              THEN [in_memory_store EXCEPT ![key] = memory.entry]
              ELSE in_memory_store
        /\ redis_store' = IF client THEN shared.store ELSE redis_store
        /\ admitted' =
              IF limited THEN admitted
              ELSE [admitted EXCEPT ![key] = Append(@, now)]
        /\ rejected' = IF limited THEN rejected + 1 ELSE rejected
        /\ admission_paths' =
              IF limited THEN admission_paths ELSE admission_paths \cup {path}
        /\ checks' =
              [checks EXCEPT ![key] =
                  Append(@, [time |-> now, path |-> path,
                             limited |-> limited])]

\* Coroutines suspended inside RateLimiter.initialize.
Connecting == {c \in Coroutines : limiter_pc[c] # <<>>}

\* get_rate_limiter up to its first suspension.  Without a client the
\* coroutine enters initialize, which assigns redis_client and then awaits
\* the ping; with a client it goes straight to is_rate_limited.
GetRateLimiterBegin(c) ==
    /\ limiter_pc[c] = <<>>
    /\ rejected + Len(admitted["10.0.0.1"]) + Len(admitted["unknown"])
          + Cardinality(Connecting) < MaxAdmissionChecks
    /\ \E key \in ClientIds :
          IF ~redis_client
          THEN /\ redis_client' = TRUE
               /\ limiter_pc' = [limiter_pc EXCEPT ![c] = <<key>>]
               /\ UNCHANGED <<in_memory_store, redis_store, admitted,
                              rejected, admission_paths, checks>>
          ELSE /\ IsRateLimited(key, TRUE)
               /\ UNCHANGED <<redis_client, limiter_pc>>
    /\ UNCHANGED <<now, redis_reachable, requests_limit, log_requests,
                   pending_writes, safety_vars, ask_vars, cache_vars,
                   service_vars, init_vars, index_vars, chunk_vars>>

\* The awaited ping is over: the client stays when the store answered and
\* is set back to None when the ping raised; get_rate_limiter goes on to
\* is_rate_limited.
PingReturns(c) ==
    /\ limiter_pc[c] # <<>>
    /\ limiter_pc' = [limiter_pc EXCEPT ![c] = <<>>]
    /\ redis_client' = redis_reachable
    /\ IsRateLimited(limiter_pc[c][1], redis_reachable)
    /\ UNCHANGED <<now, redis_reachable, requests_limit, log_requests,
                   pending_writes, safety_vars, ask_vars, cache_vars,
                   service_vars, init_vars, index_vars, chunk_vars>>

NextConnect ==
    \/ \E c \in Coroutines : GetRateLimiterBegin(c)
    \/ \E c \in Coroutines : PingReturns(c)
    \/ Tick

SpecConnect == InitConnect /\ [][NextConnect]_vars

(***************************************************************************)
(* The interaction log of concurrent requests: each request that reaches   *)
(* the end of ask_question hands log_interaction to BackgroundTasks, and   *)
(* the task awaits insert_one once the response is sent.                   *)
(***************************************************************************)
MaxLogRequests == 4

InitLog ==
    /\ condition_order = SourceOrder
    /\ filter_query = <<>>
    /\ filter_result = <<>>
    /\ AskIdle
    /\ clients = GeneratorClients(FALSE, FALSE, FALSE, FALSE)
    /\ logs_collection \in BOOLEAN
    /\ RateIdle
    /\ redis_reachable = TRUE
    /\ requests_limit = MaxLimit
    /\ CacheIdle
    /\ InfraIdle
    /\ emb_max_size = MaxCacheSize
    /\ provider = "sentence_transformer"

\* background_tasks.add_task(logger_service.log_interaction, log) and the
\* start of the task: without a collection log_interaction returns at
\* once, else it awaits insert_one.
DispatchLog ==
    /\ log_requests < MaxLogRequests
    /\ log_requests' = log_requests + 1
    /\ pending_writes' =
          IF logs_collection THEN Append(pending_writes, log_requests + 1)
          ELSE pending_writes
    /\ UNCHANGED <<limiter_pc, safety_vars, ask_vars, rate_vars, cache_vars,
                   service_vars, init_vars, index_vars, chunk_vars>>

\* One awaited insert_one is over: the record is in the sink, or the
\* exception is logged and the record is lost.
InsertReturns ==
    /\ \E i \in 1..Len(pending_writes) : \E insert_ok \in BOOLEAN :
          /\ pending_writes' =
                SubSeq(pending_writes, 1, i - 1)
                    \o SubSeq(pending_writes, i + 1, Len(pending_writes))
          /\ interaction_logs' =
                IF insert_ok THEN Append(interaction_logs, pending_writes[i])
                ELSE interaction_logs
    /\ UNCHANGED <<log_requests, limiter_pc, safety_incidents, safety_vars,
                   request_vars, component_vars, rate_vars, cache_vars,
                   service_vars, init_vars, index_vars, chunk_vars>>

NextLog ==
    \/ DispatchLog
    \/ InsertReturns

SpecLog == InitLog /\ [][NextLog]_vars

(***************************************************************************)
(* Properties.                                                             *)
(***************************************************************************)

\* Calls that are retrieval work, and calls that are generation.
RetrievalOps ==
    {"engine.initialize", "embedding.initialize", "vector_db.initialize",
     "retrieve_relevant_chunks", "embed_query", "vector_db.search"}

GenerationOps == {"generator.initialize", "generate_response", "llm.nvidia", "llm.openai"}

LLMOps == {"llm.nvidia", "llm.openai"}

DispatchOps == {"add_task.log_safety_incident", "add_task.log_interaction"}

\* Positions of the trace holding one of the calls `ops`.
Calls(ops) == {i \in 1..Len(trace) : trace[i].op \in ops}

\* Positions of the trace holding a failed call among `ops`.
FailedCalls(ops) == {i \in Calls(ops) : ~trace[i].ok}

\* The request in hand has been assessed and is blocked / is let through.
RequestBlocked == safety_assessment # <<>> /\ ~safety_assessment[1].allow_response

RequestAllowed == safety_assessment # <<>> /\ safety_assessment[1].allow_response

\* The handler has returned its response.
Responded == pc \in {"responded", "done"}

\* C1: within one request no retrieval work (engine or index
\* initialization, query embedding, vector search) and no generation starts
\* before the safety evaluation of the query has completed, by returning an
\* assessment or by failing into the permissive assessment.
C1_SafetyBeforeRetrieval ==
    \A i \in Calls(RetrievalOps \cup GenerationOps) :
        /\ \E j \in 1..(i - 1) : trace[j].op = "evaluate_query"
        /\ safety_assessment # <<>>

\* A request whose safety evaluation failed has searched the index.
C1_Witness ==
    /\ FailedCalls({"evaluate_query"}) # {}
    /\ Calls({"vector_db.search"}) # {}
    /\ Calls({"generate_response"}) # {}

\* C2: a request whose assessment has allow_response = false never invokes
\* the retrieval engine or the generator, and its response has no retrieval
\* results, no sources and confidence 0.
C2_BlockedDoesNoWork ==
    RequestBlocked =>
        /\ Calls(RetrievalOps \cup GenerationOps) = {}
        /\ gen_context = <<>>
        /\ Responded =>
              /\ response[1].retrieval_results = <<>>
              /\ response[1].response.sources = <<>>
              /\ response[1].response.confidence = 0

\* A blocked request has been answered.
C2_Witness ==
    /\ RequestBlocked
    /\ pc = "responded"
    /\ response[1].response.content = "blocked"

\* C3: every query with an emergency term in it, in any casing, is assessed
\* CRITICAL with allow_response = false and exactly one flag, EMERGENCY of
\* severity 1.0, whatever else the query contains.
C3_EmergencyIsCritical ==
    (filter_result # <<>> /\ HasEmergencyTerm(Lower(filter_query))) =>
        LET a == filter_result[1]
        IN  /\ a.risk_level = "CRITICAL"
            /\ a.allow_response = FALSE
            /\ Len(a.flags) = 1
            /\ a.flags[1].type = "EMERGENCY"
            /\ a.flags[1].severity = 10

\* An upper-case emergency term between a pregnancy and a medical term.
C3_Witness ==
    /\ filter_result # <<>>
    /\ filter_query = <<"Pregnant", "STROKE", "hernia">>

\* The query holds a pregnancy term or a listed medical condition.
HasMedicalTerm(query) ==
    \E term \in pregnancy_keywords \cup medical_conditions :
        Contains(term, Lower(query))

HasMedicalAdviceFlag(assessment) ==
    \E i \in 1..Len(assessment.flags) : assessment.flags[i].type = "MEDICAL_ADVICE"

\* C4 as claimed: every query with a pregnancy term or a listed medical
\* condition gets at least one MEDICAL_ADVICE flag, also when it contains
\* other configured terms.
C4_Original ==
    (filter_result # <<>> /\ HasMedicalTerm(filter_query)) =>
        HasMedicalAdviceFlag(filter_result[1])

\* C4 as amended: every query with a pregnancy term or a listed medical
\* condition and without an emergency term gets at least one MEDICAL_ADVICE
\* flag.
C4_MedicalAdviceUnlessEmergency ==
    (/\ filter_result # <<>>
     /\ HasMedicalTerm(filter_query)
     /\ ~HasEmergencyTerm(Lower(filter_query))) =>
        HasMedicalAdviceFlag(filter_result[1])

\* A query with a medical condition, a pregnancy term and a neutral word.
C4_Witness ==
    /\ filter_result # <<>>
    /\ filter_query = <<"Surgery", "trimester", "yoga">>
    /\ HasMedicalAdviceFlag(filter_result[1])

\* The risk level of a maximum severity, thresholds in tenths.
LevelOfSeverity(s) ==
    IF s >= 9 THEN "CRITICAL"
    ELSE IF s >= 7 THEN "HIGH"
    ELSE IF s >= 4 THEN "MEDIUM"
    ELSE "LOW"

\* The query holds none of the configured terms.
HasNoConfiguredTerm(query) ==
    ~HasMedicalTerm(query) /\ ~HasEmergencyTerm(Lower(query))

\* C5: the risk level of every assessment is the threshold function of the
\* maximum flag severity s (CRITICAL from 0.9, HIGH from 0.7, MEDIUM from
\* 0.4, LOW below and without flags), allow_response is false exactly when
\* s >= 0.9, and a query without configured terms gets no flags, LOW and
\* allow_response = true.
C5_RiskIsThresholdOfSeverity ==
    filter_result # <<>> =>
        LET a == filter_result[1]
            severities == {a.flags[i].severity : i \in 1..Len(a.flags)}
        IN  /\ a.flags = <<>> => (a.risk_level = "LOW" /\ a.allow_response)
            /\ a.flags # <<>> =>
                  /\ a.risk_level = LevelOfSeverity(SetMax(severities))
                  /\ a.allow_response = (SetMax(severities) < 9)
            /\ HasNoConfiguredTerm(filter_query) =>
                  (a.flags = <<>> /\ a.risk_level = "LOW" /\ a.allow_response)

\* A query whose only flag has severity 0.7, the HIGH threshold itself.
C5_Witness ==
    /\ filter_result # <<>>
    /\ filter_query = <<"hernia", "yoga">>
    /\ filter_result[1].risk_level = "HIGH"
    /\ filter_result[1].allow_response

\* The steps of the handler between admission and the response.
HandlerStep == SafetyCheck \/ Blocked \/ Retrieval \/ Generation \/ LogAndRespond

\* C6: a request that entered the handler ends in a QueryResponse with
\* status 200 whichever of safety evaluation, engine or generator
\* initialization, retrieval, generation or log write fails: the handler
\* can always take its next step, no status other than 200 is returned, and
\* a failed safety evaluation leaves the permissive LOW assessment in use.
C6_AlwaysQueryResponse ==
    /\ http_status \in {0, 200}
    /\ pc \in {"idle", "safety", "gate", "generation", "log", "responded", "done"}
    /\ pc \in {"safety", "gate", "generation", "log"} => ENABLED HandlerStep
    /\ Responded => (http_status = 200 /\ response # <<>>)
    /\ (safety_assessment # <<>> /\ FailedCalls({"evaluate_query"}) # {}) =>
          safety_assessment[1] = PermissiveAssessment

\* A request answered although safety evaluation, engine initialization,
\* retrieval, generation and the log write all failed.
C6_Witness ==
    /\ pc = "done"
    /\ http_status = 200
    /\ FailedCalls({"evaluate_query"}) # {}
    /\ FailedCalls({"engine.initialize"}) # {}
    /\ FailedCalls({"retrieve_relevant_chunks"}) # {}
    /\ FailedCalls({"generate_response"}) # {}
    /\ FailedCalls({"log_interaction"}) # {}

\* The retrieval of the request in hand failed.
RetrievalFailed == FailedCalls({"retrieve_relevant_chunks"}) # {}

\* C7: for every request that is not blocked, generation is invoked exactly
\* once, after the retrieval step, also when the retrieval failed; then it
\* is given the empty context and the response has no retrieval results.
C7_GenerateOnceAfterRetrieval ==
    (RequestAllowed /\ pc \in {"log", "responded", "done"}) =>
        /\ Cardinality(Calls({"generate_response"})) = 1
        /\ \A g \in Calls({"generate_response"}) :
              \E r \in Calls({"retrieve_relevant_chunks"}) : r < g
        /\ gen_context = <<retrieved_chunks>>
        /\ RetrievalFailed =>
              /\ gen_context = << <<>> >>
              /\ Responded => response[1].retrieval_results = <<>>

\* A request answered after its retrieval failed.
C7_Witness ==
    /\ RequestAllowed
    /\ pc = "responded"
    /\ RetrievalFailed
    /\ Cardinality(Calls({"generate_response"})) = 1

\* The LLM was called for the request in hand and its last call failed.
LLMFailed ==
    /\ Calls(LLMOps) # {}
    /\ ~trace[SetMax(Calls(LLMOps))].ok

\* C8 as claimed: when the LLM call fails for a request that is not
\* blocked, the response is an apology with confidence 0.0 and an empty
\* sources list, and the interaction log is dispatched.
C8_Original ==
    (RequestAllowed /\ LLMFailed /\ Responded) =>
        /\ response[1].response.content \in {"apology", "apology_error"}
        /\ response[1].response.confidence = 0
        /\ response[1].response.sources = <<>>
        /\ Calls({"add_task.log_interaction"}) # {}

\* C9: every request dispatches exactly one log record, a safety incident
\* if and only if it was blocked and an interaction log otherwise, also when
\* retrieval or generation failed; writing the record happens after the
\* response and changes neither the response nor its status.
C9_ExactlyOneLog ==
    /\ [](/\ Cardinality(Calls(DispatchOps)) <= 1
          /\ Responded =>
                /\ Cardinality(Calls(DispatchOps)) = 1
                /\ RequestBlocked <=> Calls({"add_task.log_safety_incident"}) # {}
                /\ RequestAllowed <=> Calls({"add_task.log_interaction"}) # {}
          /\ Calls({"log_safety_incident", "log_interaction"}) # {} => Responded)
    /\ [][(pc = "responded" /\ pc' \in {"responded", "done"}) =>
            (response' = response /\ http_status' = http_status)]_vars

\* An interaction log dispatched after retrieval and generation failed, and
\* the write of it failed in the sink.
C9_Witness ==
    /\ pc = "done"
    /\ RequestAllowed
    /\ RetrievalFailed
    /\ FailedCalls({"generate_response"}) # {}
    /\ logs_collection
    /\ FailedCalls({"log_interaction"}) # {}

\* The number of requests of `key` admitted at times from..to.
AdmittedIn(key, from, to) ==
    Cardinality({i \in 1..Len(admitted[key]) :
                    from <= admitted[key][i] /\ admitted[key][i] <= to})

\* C10 as claimed: for one client id, any interval of length W holds at
\* most limit + 1 admitted requests (the interval taken half-open).
C10_Original ==
    \A key \in ClientIds : \A t \in 0..MaxTime :
        AdmittedIn(key, t, t + window_seconds - 1) <= requests_limit + 1

\* C10 as amended: while all admissions were counted by one healthy store
\* (the shared store without store errors, or the in-memory fallback), any
\* interval of length W, both ends included, holds at most 2 * limit
\* admitted requests of one client id; the in-memory fallback configured
\* with limit 0 still admits the request that opens a window, so there the
\* bound is 1.
C10_AtMostTwiceLimit ==
    Cardinality(admission_paths) <= 1 /\ "fail_open" \notin admission_paths =>
        \A key \in ClientIds : \A t \in 0..MaxTime :
            AdmittedIn(key, t, t + window_seconds) <=
                IF requests_limit = 0 /\ admission_paths = {"in_memory"}
                THEN 1 ELSE 2 * requests_limit

\* A client admitted 2 * limit times across a window boundary of the
\* shared store.
C10_Witness ==
    /\ admission_paths = {"redis"}
    /\ requests_limit > 0
    /\ \E key \in ClientIds : \E t \in 0..MaxTime :
          AdmittedIn(key, t, t + window_seconds - 1) = 2 * requests_limit

\* The checks of `key` up to the i-th that fall into the window of the
\* i-th, for the shared store: the window is the one its key names.
SeenInRedisWindow(key, i) ==
    Cardinality({j \in 1..i :
        WindowKey(key, checks[key][j].time) = WindowKey(key, checks[key][i].time)})

\* The start of the in-memory window the i-th check of `key` falls into: a
\* window opens with the first check and with every check that comes more
\* than window_seconds after the start of the window before it.
RECURSIVE InMemoryWindowStart(_, _)
InMemoryWindowStart(key, i) ==
    IF i = 1 THEN checks[key][1].time
    ELSE LET before == InMemoryWindowStart(key, i - 1)
         IN  IF checks[key][i].time - before > window_seconds
             THEN checks[key][i].time ELSE before

SeenInMemoryWindow(key, i) ==
    Cardinality({j \in 1..i :
        InMemoryWindowStart(key, j) = InMemoryWindowStart(key, i)})

\* Every check so far went through the branch `path` of is_rate_limited.
AllChecksOn(path) ==
    \A key \in ClientIds : \A i \in 1..Len(checks[key]) :
        checks[key][i].path = path

\* C11 as claimed: with a healthy counter store, shared or in-memory, a
\* request is rejected exactly when the number of requests of its client
\* in the current window, this one included, exceeds the configured limit,
\* for every configured limit.
C11_Original ==
    /\ AllChecksOn("redis") =>
          \A key \in ClientIds : \A i \in 1..Len(checks[key]) :
              checks[key][i].limited <=>
                  SeenInRedisWindow(key, i) > requests_limit
    /\ AllChecksOn("in_memory") =>
          \A key \in ClientIds : \A i \in 1..Len(checks[key]) :
              checks[key][i].limited <=>
                  SeenInMemoryWindow(key, i) > requests_limit

\* C12: a request whose admission check met an error of the shared
\* counter store is admitted, never answered 429; the check leaves the
\* limiter ready for the next request.
C12_StoreErrorAdmits ==
    \A key \in ClientIds : \A i \in 1..Len(checks[key]) :
        checks[key][i].path = "fail_open" =>
            /\ ~checks[key][i].limited
            /\ checks[key][i].time \in Range(admitted[key])

\* A request beyond the limit of its window admitted because the store
\* raised an error.
C12_Witness ==
    \E key \in ClientIds : \E i \in 1..Len(checks[key]) :
        /\ checks[key][i].path = "fail_open"
        /\ ~checks[key][i].limited
        /\ SeenInRedisWindow(key, i) > requests_limit

\* The place of chunk `id` in the list the index returned.
BackendPosition(id) ==
    CHOOSE i \in 1..Len(retrieval_call[1].search_results) :
        retrieval_call[1].search_results[i].chunk_id = id

\* C13: the list retrieve_relevant_chunks returned for threshold
\* min_similarity has ranks 1..n in list order, only scores at or above the
\* threshold, scores that never increase along the list, and results of
\* equal score in the order the index returned them.
C13_RankedAndFiltered ==
    retrieval_call # <<>> =>
        /\ \A i \in 1..Len(retrieved_chunks) :
              /\ retrieved_chunks[i].relevance_rank = i
              /\ retrieved_chunks[i].similarity_score >=
                     retrieval_call[1].min_similarity
        /\ \A i, j \in 1..Len(retrieved_chunks) :
              i < j =>
                 /\ retrieved_chunks[i].similarity_score >=
                        retrieved_chunks[j].similarity_score
                 /\ retrieved_chunks[i].similarity_score =
                        retrieved_chunks[j].similarity_score =>
                            BackendPosition(retrieved_chunks[i].chunk_id) <
                                BackendPosition(retrieved_chunks[j].chunk_id)

\* Two results of equal score returned in the order of the index, which is
\* not the order of their ids.
C13_Witness ==
    /\ Len(retrieved_chunks) = 2
    /\ retrieved_chunks[1].similarity_score = retrieved_chunks[2].similarity_score
    /\ retrieved_chunks[1].chunk_id = "doc_chunk_1"
    /\ retrieval_call[1].search_results[1].chunk_id = "doc_chunk_1"

\* The value a request asks for: the field when it is given, the default
\* only when it is absent.
Requested(field, default) == IF field = <<>> THEN default ELSE field[1]

\* C14 as claimed: the retrieval of a request runs with exactly the
\* max_chunks and min_similarity the request supplies, 0 included, and with
\* the defaults 5 and 0.7 only for an absent field; so every hit of the index
\* whose score reaches the requested min_similarity is returned.
C14_Original ==
    retrieval_call # <<>> =>
        /\ retrieval_call[1].max_results =
              Requested(request.max_chunks, DefaultMaxChunks)
        /\ retrieval_call[1].min_similarity =
              Requested(request.min_similarity, DefaultMinSimilarity)
        /\ retrieval_call[1].searched =>
              \A i \in 1..Len(retrieval_call[1].search_results) :
                 retrieval_call[1].search_results[i].score >=
                        Requested(request.min_similarity, DefaultMinSimilarity)
                    => \E j \in 1..Len(retrieved_chunks) :
                          retrieved_chunks[j].chunk_id =
                              retrieval_call[1].search_results[i].chunk_id

\* The sources of the response returned cite the retrieval results it
\* carries one for one, in rank order.
SourcesCiteResults ==
    LET sources == response[1].response.sources
        results == response[1].retrieval_results
    IN  /\ Len(sources) = Len(results)
        /\ \A i \in 1..Len(results) :
              /\ results[i].relevance_rank = i
              /\ sources[i].source = results[i].source
              /\ sources[i].chunk_id = results[i].chunk_id
              /\ sources[i].relevance_score = results[i].similarity_score

\* C15 as claimed: every non-blocked response has exactly one citation per
\* entry of its retrieval_results, in rank order, with that entry's source,
\* chunk id and similarity score.
C15_Original ==
    (Responded /\ RequestAllowed) => SourcesCiteResults

\* C15 as amended: the same for every non-blocked response whose
\* generate_response call returned; when that call raises, the apology the
\* handler substitutes has no sources whatever was retrieved.
C15_CitationsUnlessGenerationRaised ==
    (Responded /\ RequestAllowed) =>
        IF FailedCalls({"generate_response"}) = {}
        THEN SourcesCiteResults
        ELSE response[1].response.sources = <<>>

\* A generated answer returned with two retrieval results and their two
\* citations.
C15_Witness ==
    /\ Responded
    /\ RequestAllowed
    /\ FailedCalls({"generate_response"}) = {}
    /\ Len(response[1].retrieval_results) = 2
    /\ Len(response[1].response.sources) = 2
    /\ response[1].response.content = "llm"

\* The replies whose text carries a disclaimer by construction: none of
\* the LLM answer, the mock excerpts and the apologies is built from the
\* assessment.
ContentCarries(content, disclaimer) == FALSE

\* C16 as claimed: the reply to an allowed query whose assessment lists
\* required disclaimers has each of them attached, in its safety notices or
\* in its content.
C16_Original ==
    (Responded /\ RequestAllowed) =>
        \A d \in Range(safety_assessment[1].required_disclaimers) :
            \/ d \in Range(response[1].response.safety_notices)
            \/ ContentCarries(response[1].response.content, d)

\* C18: after any sequence of set, get and clear the cache never holds
\* more entries than its configured max_size.
C18_SizeWithinMax == CacheSize(emb_cache) <= emb_max_size

\* A set on a full cache that made room by deleting an oldest entry.
C18_Witness ==
    /\ cache_call # <<>>
    /\ cache_call[1].op = "set"
    /\ cache_call[1].removed # {}
    /\ GenerateKey(cache_call[1].pair[2], cache_call[1].pair[1])
          \notin cache_call[1].removed
    /\ CacheSize(emb_cache) = emb_max_size

\* C19 as claimed, for the get just made: it returns the vector most
\* recently set for its (model, text) when that set is younger than the TTL
\* and the entry was not evicted or cleared since; it returns nothing for a
\* pair never set; and what it returns is never as old as the TTL, an entry
\* that old being removed by the read.
C19_Original ==
    (cache_call # <<>> /\ cache_call[1].op = "get") =>
        LET pair == cache_call[1].pair
            key == GenerateKey(pair[2], pair[1])
            value == cache_call[1].value
        IN  /\ last_set[pair] = <<>> => value = <<>>
            /\ (/\ last_set[pair] # <<>>
                /\ last_set[pair][1].live
                /\ emb_now - last_set[pair][1].time < CacheTTL)
                  => value = <<last_set[pair][1].embedding>>
            /\ value # <<>> =>
                  /\ emb_cache[key] # <<>>
                  /\ emb_now - emb_cache[key][1].timestamp < CacheTTL
            /\ emb_cache[key] # <<>> =>
                  emb_now - emb_cache[key][1].timestamp < CacheTTL

\* Text i of the call just made was a cache hit: the call used the cache
\* and the cache held, on entry, a vector for that text younger than the
\* TTL.
WasHit(call, i) ==
    LET key == GenerateKey(call.texts[i], ServiceModel)
    IN  /\ call.use_cache
        /\ call.cache_before[key] # <<>>
        /\ call.time - call.cache_before[key][1].timestamp < CacheTTL

\* The number of misses among the first i texts of the call.
MissesUpTo(call, i) == Cardinality({j \in 1..i : ~WasHit(call, j)})

\* C17: embed_texts on texts T returns |T| vectors of the provider's
\* declared dimension, vector i being the cached vector of T[i] on a hit
\* and the vector the provider computed for T[i] on a miss; the provider is
\* called with exactly the missed texts, in order, and not at all when
\* every text is a hit.
C17_OneVectorPerText ==
    (embed_call # <<>> /\ embed_call[1].op = "embed_texts"
        /\ ~embed_call[1].raised) =>
        LET call == embed_call[1]
            n == Len(call.texts)
        IN  /\ Len(call.embeddings) = n
            /\ \A i \in 1..n :
                  /\ call.embeddings[i].dimension = ProviderDimension(provider)
                  /\ WasHit(call, i) =>
                        call.embeddings[i] =
                            call.cache_before[GenerateKey(call.texts[i],
                                                          ServiceModel)][1].embedding
                  /\ ~WasHit(call, i) =>
                        /\ call.embeddings[i] =
                              call.provider_returned[MissesUpTo(call, i)]
                        /\ call.provider_texts[MissesUpTo(call, i)] = call.texts[i]
                        /\ call.api_ok =>
                              call.embeddings[i] =
                                  EmbeddingOf(call.texts[i], provider)
            /\ Len(call.provider_texts) = MissesUpTo(call, n)
            /\ call.provider_called <=> MissesUpTo(call, n) > 0

\* A batch of two texts, the first a miss and the second a hit, answered
\* with the new vector first and the cached one second.
C17_Witness ==
    /\ embed_call # <<>>
    /\ embed_call[1].op = "embed_texts"
    /\ ~embed_call[1].raised
    /\ embed_call[1].api_ok
    /\ Len(embed_call[1].texts) = 2
    /\ ~WasHit(embed_call[1], 1)
    /\ WasHit(embed_call[1], 2)
    /\ embed_call[1].provider_texts = <<embed_call[1].texts[1]>>
    /\ Len(embed_call[1].embeddings) = 2

\* C20 as claimed: when the provider call fails while the query of a
\* request is embedded, the engine sees the call raise and gets no vector;
\* no vector of zeros stands in for the query.
C20_Original ==
    (embed_call # <<>> /\ embed_call[1].op = "embed_query"
        /\ embed_call[1].provider_called /\ ~embed_call[1].api_ok) =>
        /\ embed_call[1].raised
        /\ embed_call[1].embeddings = <<>>

\* C21: when the preferred (NVIDIA) provider cannot be created or fails in
\* its initialization, the service falls through to the local
\* (SentenceTransformer) provider; and the provider, once selected, is the
\* same for every later call.
C21_Original ==
    /\ [](("nvidia" \in init_failures) => provider = "sentence_transformer")
    /\ [][provider' = provider]_vars

\* C22: a search with a query vector whose dimension differs from the one
\* recorded for the collection, filled or empty, recreates the collection
\* with the dimension of the query recorded, returns no result and does not
\* raise; afterwards upserts of that dimension succeed and searches of that
\* dimension recreate nothing.
C22_Original ==
    index_call # <<>> =>
        LET call == index_call[1]
        IN  /\ (/\ call.op = "search"
                /\ call.before.exists
                /\ call.before.dimension # <<>>
                /\ call.before.dimension # <<call.dim>>)
               => /\ ~call.raised
                  /\ call.recreated
                  /\ call.results = {}
                  /\ collection.dimension = <<call.dim>>
            /\ (/\ call.op \in {"search", "upsert"}
                /\ call.before.exists
                /\ call.before.dimension = <<call.dim>>)
               => /\ ~call.raised
                  /\ ~call.recreated

\* Every chunk that chunk_text returned so far.
ReturnedChunks ==
    UNION {Range(chunk_runs[r].chunks) : r \in 1..Len(chunk_runs)}

\* C23: every chunk the chunking service returns has at least 5 tokens and
\* at most max_chunk_size tokens, content that is not empty once trimmed,
\* and an alphabetic run of length 3 or more.
C23_Original ==
    \A chunk \in ReturnedChunks :
        /\ chunk.tokens >= MinTokens
        /\ chunk.tokens <= chunk_config.max_chunk_size
        /\ TextChars(chunk.content) > 0
        /\ \E i \in 1..Len(chunk.content) : HasAlphabeticRun(chunk.content[i])

\* C24: the chunks returned for one document carry the chunk_index values
\* 0, 1, ..., n-1 in list order, and the id of every chunk is
\* {document_id}_chunk_{chunk_index}.
C24_Original ==
    \A r \in 1..Len(chunk_runs) :
        LET chunks == chunk_runs[r].chunks
        IN  \A i \in 1..Len(chunks) :
                /\ chunks[i].chunk_index = i - 1
                /\ chunks[i].id =
                      ChunkIdOf(chunk_runs[r].document_id, chunks[i].chunk_index)

\* The content and token count of every chunk of a run, in order.
ContentAndTokens(run) ==
    [i \in 1..Len(run.chunks) |->
        [content |-> run.chunks[i].content, tokens |-> run.chunks[i].tokens,
         chunk_index |-> run.chunks[i].chunk_index]]

\* The chunk ids of a run, in order.
IdsOf(run) == [i \in 1..Len(run.chunks) |-> run.chunks[i].id]

\* C25 as stated: two runs of chunk_text on the same content, configuration
\* and category return the same chunks: equal content, token counts and
\* chunk ids.
C25_Original ==
    \A r1, r2 \in 1..Len(chunk_runs) :
        /\ ContentAndTokens(chunk_runs[r1]) = ContentAndTokens(chunk_runs[r2])
        /\ IdsOf(chunk_runs[r1]) = IdsOf(chunk_runs[r2])

\* C25, amended: two runs on the same content, configuration and category
\* return chunks of equal content, token counts and chunk_index; the chunk
\* ids are equal too when both runs were given the same document_id.
C25_DeterministicGivenDocumentId ==
    \A r1, r2 \in 1..Len(chunk_runs) :
        /\ ContentAndTokens(chunk_runs[r1]) = ContentAndTokens(chunk_runs[r2])
        /\ (/\ chunk_runs[r1].given # <<>>
            /\ chunk_runs[r1].given = chunk_runs[r2].given)
           => chunk_runs[r1].chunks = chunk_runs[r2].chunks

\* Two runs with the same document_id that returned several chunks.
C25_Witness ==
    /\ Len(chunk_runs) = 2
    /\ chunk_runs[1].given # <<>>
    /\ chunk_runs[1].given = chunk_runs[2].given
    /\ Len(chunk_runs[1].chunks) >= 2
    /\ chunk_runs[1].chunks = chunk_runs[2].chunks

\* C30: a document whose normalized text would itself pass validation (10
\* characters, an alphabetic run of 3, 5 tokens) yields at least one chunk,
\* whatever the configuration, also when it is shorter than min_chunk_size.
C30_Original ==
    \A r \in 1..Len(chunk_runs) :
        LET normalized == CleanText(chunk_content)
        IN  PassesValidation(normalized, EstimateTokens(normalized))
                => Len(chunk_runs[r].chunks) >= 1

\* C29: the embedding cache holds only vectors the provider actually
\* returned for the text; the vector of zeros put in place of a failed
\* provider batch is never stored, so no later embed_texts or embed_query
\* call is served one from the cache.
C29_Original ==
    /\ \A k \in StoredKeys(emb_cache) : ~emb_cache[k][1].embedding.zero
    /\ (embed_call # <<>> /\ ~embed_call[1].provider_called) =>
           \A i \in 1..Len(embed_call[1].embeddings) :
               ~embed_call[1].embeddings[i].zero

\* C28: initialization of the embedding service is one-time: across the
\* sequential and concurrent requests that trigger it the provider is
\* constructed and initialized once, so at most one provider object is ever
\* brought up, and every object constructed after one is up is that one.
C28_Original ==
    /\ Cardinality(loaded_instances) <= 1
    /\ (embedding_initialized /\ \A c \in Coroutines : init_pc[c] = <<>>) =>
           service_instance \in loaded_instances

\* C26: the log writes dispatched and not yet completed never exceed a
\* fixed bound, however many requests arrive while the sink is slow or
\* down: on overflow the oldest pending record is dropped and counted.  A
\* fixed bound is below the number of requests once enough of them have
\* arrived, so the writes in flight stay below the requests dispatched.
C26_Original ==
    log_requests = MaxLogRequests => Len(pending_writes) < MaxLogRequests

\* C27: while the shared store is unreachable, every request is counted by
\* the in-process fallback, so that the requests of one client admitted at
\* one instant are at most the limit; also when requests arrive while a
\* connection attempt is in progress.
C27_Original ==
    ~redis_reachable =>
        \A key \in ClientIds :
            /\ \A i \in 1..Len(checks[key]) :
                  checks[key][i].path = "in_memory"
            /\ requests_limit >= 1 =>
                  \A t \in 0..MaxTime :
                      Cardinality({i \in 1..Len(checks[key]) :
                                      /\ checks[key][i].time = t
                                      /\ ~checks[key][i].limited})
                          <= requests_limit

====
